---- MODULE Spec2Model ----
(***************************************************************************)
(* A model of absfs/s3fs: a POSIX-like filesystem over an S3 bucket.       *)
(*                                                                         *)
(*   File             (s3file.go)   buffered write / streamed read handle  *)
(*   FileSystem       (s3fs.go, helpers.go)  OpenFile, Remove, RemoveAll,  *)
(*                                  Walk, ...                              *)
(*   MultipartUpload  (multipart.go) chunked upload session                *)
(*                                                                         *)
(* Strings are sequences of one-character strings, so that TrimPrefix,     *)
(* HasSuffix and the bucket's prefix listing are computed, not assumed.    *)
(* Byte slices are sequences over Byte.  The bucket is the variable store, *)
(* a function from the keys that hold an object to the object's bytes.     *)
(***************************************************************************)
EXTENDS Integers, Sequences, FiniteSets, TLC

\* ------------------------------------------------------------------ bounds
\* Longest write buffer the model lets a File grow to.
MaxBuf == 2
\* Longest byte slice handed to one Write / WriteAt call.
MaxData == 1
\* Uploads the model follows on one File.
MaxPuts == 2
\* Parts one upload session accepts before the model stops it.
MaxParts == 3
\* Most new keys the bucket returns in one listing page.
MaxPage == 2
\* RemoveAll calls made one after another
MaxCalls == 2
\* largest File position explored where positions are followed
MaxPos == 15

Byte == {0, 1}

\* All byte slices of length at most n.
RECURSIVE SlicesUpTo(_)
SlicesUpTo(n) ==
  IF n = 0 THEN {<<>>}
  ELSE LET shorter == SlicesUpTo(n - 1)
       IN  shorter \cup {Append(s, b) : s \in {t \in shorter : Len(t) = n - 1}, b \in Byte}

DataArgs == SlicesUpTo(MaxData)

Min(a, b) == IF a < b THEN a ELSE b
Max(a, b) == IF a > b THEN a ELSE b

\* ----------------------------------------------------------------- strings
HasPrefix(s, p) == Len(p) <= Len(s) /\ SubSeq(s, 1, Len(p)) = p
HasSuffix(s, x) == Len(x) <= Len(s) /\ SubSeq(s, Len(s) - Len(x) + 1, Len(s)) = x
TrimPrefix(s, p) == IF HasPrefix(s, p) THEN SubSeq(s, Len(p) + 1, Len(s)) ELSE s
Slash == <<"/">>

\* Byte order of the characters the keys use (UTF-8 code points).
CharCode(c) ==
  CASE c = "/" -> 47 [] c = "b" -> 98 [] c = "d" -> 100 [] c = "e" -> 101
    [] c = "f" -> 102 [] c = "s" -> 115 [] c = "u" -> 117 [] c = "x" -> 120
    [] c = "y" -> 121 [] c = "z" -> 122

\* s sorts strictly before t in the bucket's (lexicographic, bytewise) listing.
RECURSIVE KeyLess(_, _)
KeyLess(s, t) ==
  IF t = <<>> THEN FALSE
  ELSE IF s = <<>> THEN TRUE
  ELSE IF Head(s) = Head(t) THEN KeyLess(Tail(s), Tail(t))
  ELSE CharCode(Head(s)) < CharCode(Head(t))

\* The keys of a set in listing order.
RECURSIVE SortKeys(_)
SortKeys(S) ==
  IF S = {} THEN <<>>
  ELSE LET m == CHOOSE k \in S : \A j \in S \ {k} : KeyLess(k, j)
       IN  <<m>> \o SortKeys(S \ {m})

IsPrefixOf(a, b) == Len(a) <= Len(b) /\ SubSeq(b, 1, Len(a)) = a

\* -------------------------------------------------------------------- keys
kF == <<"f">>
kD == <<"d">>
kDslash == <<"d", "/">>
kDx == <<"d", "/", "x">>
kDy == <<"d", "/", "y">>
kDsubz == <<"d", "/", "s", "u", "b", "/", "z">>
kDe == <<"d", "e">>
kSDx == <<"/", "d", "/", "x">>

Handles == {"h1", "h2"}

VARIABLES
  store,     \* the bucket: key |-> bytes, for the keys that hold an object
  lastOp,    \* the call that ran last: [name, err]
  lastReqs,  \* the store requests that call issued, in order
  file,      \* the File objects: handle |-> fields of struct File
  fg,        \* per File, for the properties: puts issued, Write arguments seen
  mu,        \* the MultipartUpload object
  up,        \* the bucket's side of the multipart upload
  sg,        \* per session, for the properties: the parts accepted so far
  thr,       \* concurrent UploadPart callers: position and locals
  wk,        \* a Walk call in progress
  rm,        \* a RemoveAll call in progress
  mk,        \* a MkdirAll call in progress, and the last Exists call
  ra,        \* concurrent ReadAt callers on File h1: position and locals
  uf         \* an UploadFromReader call in progress

vars == <<store, lastOp, lastReqs, file, fg, mu, up, sg, thr, wk, rm, mk, ra, uf>>

Req(op, key) == [op |-> op, key |-> key]
\* A finished call: its name, the error it returned ("nil" for none), the byte
\* count it returned (for UploadPart, the part number its request carried) and
\* the bytes it delivered to the caller's buffer.
\* Field who is the File the call was made on ("fs" for a FileSystem call).
\* Field args holds the arguments of the call where a property needs them.
OpN(name, err, n, out) ==
  [name |-> name, err |-> err, n |-> n, out |-> out, who |-> "fs", args |-> <<>>]
Op(name, err) == OpN(name, err, 0, <<>>)
NoOp == Op("none", "nil")

\* ------------------------------------------------------ the bucket (client)
\* put(key, body): the object at key becomes body.
PutObject(s, key, body) == [k \in DOMAIN s \cup {key} |-> IF k = key THEN body ELSE s[k]]
\* delete(key): no object at key afterwards; deleting an absent key succeeds.
DeleteObject(s, key) == [k \in DOMAIN s \ {key} |-> s[k]]
\* head(key) succeeds exactly for a key that holds an object.
HeadObject(s, key) == key \in DOMAIN s
\* The keys a listing under prefix covers, in listing order.
ListAll(s, prefix) == SortKeys({k \in DOMAIN s : HasPrefix(k, prefix)})

\* ---------------------------------------------------------------- struct File
NoBody == [nil |-> TRUE, data |-> <<>>, pos |-> 0, closed |-> FALSE]
NoFile ==
  [open |-> FALSE, key |-> <<>>, writing |-> FALSE, bufnil |-> TRUE,
   buffer |-> <<>>, offset |-> 0, body |-> NoBody]
\* Field hist: whether the arguments and histories that the properties of
\* single calls speak about are kept for this File.
\* Fields getFailed, fetched, rlog, eof: whether a GetObject of Read has
\* failed, the object as it was when one succeeded, the bytes Read has returned
\* since, and whether Read has returned io.EOF.
NoGhost ==
  [puts |-> 0, wlog |-> <<>>, pure |-> TRUE, tlog |-> <<>>, hist |-> FALSE,
   getFailed |-> FALSE, fetched |-> <<>>, rlog |-> <<>>, eof |-> FALSE]
HistGhost == [NoGhost EXCEPT !.hist = TRUE]

\* The call op with its arguments, where they are kept.
Args(g, op, args) == IF g.hist THEN [op EXCEPT !.args = args] ELSE op

Zeros(n) == [i \in 1..n |-> 0]

sessVars == <<mu, up, sg, thr>>
fileVars == <<file, fg>>
treeVars == <<wk, rm, mk, ra, uf>>

\* A File call that touches neither the File nor the bucket.
FileOnly(h, f, g, op, reqs) ==
  /\ file' = [file EXCEPT ![h] = f]
  /\ fg' = [fg EXCEPT ![h] = IF op.name = "Truncate" /\ op.err = "nil" THEN g
                              ELSE [g EXCEPT !.tlog = <<>>]]
  /\ lastOp' = [op EXCEPT !.who = h]
  /\ lastReqs' = reqs
  /\ UNCHANGED <<sessVars, treeVars>>

\* A call other than Write ends the run of Writes the ghost follows.
Impure(g) == [g EXCEPT !.pure = FALSE]

\* FileSystem.OpenFile: no request; write mode starts with an empty buffer.
OpenFile(h, name, wflag) ==
  /\ ~file[h].open
  /\ LET key == TrimPrefix(name, Slash)
         f == IF wflag
              THEN [NoFile EXCEPT !.open = TRUE, !.key = key, !.writing = TRUE,
                                  !.bufnil = FALSE]
              ELSE [NoFile EXCEPT !.open = TRUE, !.key = key]
     IN  FileOnly(h, f, [NoGhost EXCEPT !.hist = fg[h].hist], Op("OpenFile", "nil"), <<>>)
  /\ UNCHANGED store

\* Read and ReadAt without their mode check.
ReadModeErrNever(f) == FALSE

\* The mode checks that open Read/ReadAt and Write/WriteAt/Truncate.
ReadModeErr(f) == f.writing

\* Write, WriteAt and Truncate refusing every File.
WriteModeErrAlways(f) == TRUE

WriteModeErr(f) == ~f.writing

\* Read fetching the object on every call.
NeedsFetchAlways(f) == TRUE

\* Read's lazy load: f.body == nil.
NeedsFetch(f) == f.body.nil

\* File.Read with a caller buffer of n bytes.  getOk: the GetObject request
\* succeeds; rdOk: the stream read succeeds; k: the bytes the stream yields.
Read(h, n, getOk, rdOk, k) ==
  LET f == file[h]
      g == Impure(fg[h])
  IN
  /\ f.open
  /\ UNCHANGED store
  /\ IF ReadModeErr(f)
     THEN FileOnly(h, f, g, Op("Read", "ErrReadOnWriteFile"), <<>>)
     ELSE LET fetch == NeedsFetch(f)
              reqs == IF fetch THEN <<Req("GetObject", f.key)>> ELSE <<>>
              got == getOk /\ HeadObject(store, f.key)
              g0 == IF g.hist /\ fetch /\ ~got THEN [g EXCEPT !.getFailed = TRUE] ELSE g
          IN  IF fetch /\ ~got
              THEN FileOnly(h, f, g0, Op("Read", "S3Error"), reqs)
              ELSE LET body == IF fetch
                               THEN [nil |-> FALSE, data |-> store[f.key], pos |-> 0,
                                     closed |-> FALSE]
                               ELSE f.body
                       rest == Len(body.data) - body.pos
                       m == Min(k, Min(n, rest))
                       out == SubSeq(body.data, body.pos + 1, body.pos + m)
                       g1 == IF g.hist /\ fetch /\ g.fetched = <<>> /\ g.rlog = <<>>
                             THEN [g0 EXCEPT !.fetched = store[f.key]] ELSE g0
                   IN  IF body.closed \/ ~rdOk
                       THEN FileOnly(h, [f EXCEPT !.body = body], g1,
                                     Op("Read", "S3Error"), reqs)
                       ELSE IF n = 0
                       THEN FileOnly(h, [f EXCEPT !.body = body], g1, Op("Read", "nil"), reqs)
                       ELSE IF rest = 0
                       THEN FileOnly(h, [f EXCEPT !.body = body],
                                     IF g.hist THEN [g1 EXCEPT !.eof = TRUE] ELSE g1,
                                     Op("Read", "EOF"), reqs)
                       ELSE FileOnly(h, [f EXCEPT !.body = [body EXCEPT !.pos = body.pos + m]],
                                     IF g.hist THEN [g1 EXCEPT !.rlog = g.rlog \o out] ELSE g1,
                                     OpN("Read", "nil", m, out),
                                     reqs)

\* File.ReadAt with a caller buffer of n >= 1 bytes: one ranged GetObject.
ReadAt(h, n, off, getOk) ==
  LET f == file[h]
      g == Impure(fg[h])
  IN
  /\ f.open
  /\ UNCHANGED store
  /\ IF ReadModeErr(f)
     THEN FileOnly(h, f, g, Op("ReadAt", "ErrReadOnWriteFile"), <<>>)
     ELSE LET reqs == <<Req("GetObject", f.key)>>
              got == getOk /\ HeadObject(store, f.key) /\ off < Len(store[f.key])
          IN  IF ~got
              THEN FileOnly(h, f, g, Op("ReadAt", "S3Error"), reqs)
              ELSE LET out == SubSeq(store[f.key], off + 1, Min(off + n, Len(store[f.key])))
                   IN  FileOnly(h, f, g,
                                OpN("ReadAt",
                                    IF Len(out) < n THEN "ErrUnexpectedEOF" ELSE "nil",
                                    Len(out), out),
                                reqs)

\* Write putting the new bytes in front of the buffer.
WriteBufPrepend(buffer, b) == b \o buffer

\* append(f.buffer, b...)
WriteBuf(buffer, b) == buffer \o b

\* File.Write
Write(h, b) ==
  LET f == file[h]
      g == fg[h]
  IN
  /\ f.open
  /\ UNCHANGED store
  /\ IF WriteModeErr(f)
     THEN FileOnly(h, f, Impure(g), Op("Write", "ErrWriteOnReadFile"), <<>>)
     ELSE /\ Len(f.buffer) + Len(b) <= MaxBuf
          /\ f.offset + Len(b) <= MaxBuf
          /\ FileOnly(h,
                      [f EXCEPT !.buffer = WriteBuf(f.buffer, b),
                                !.offset = f.offset + Len(b)],
                      IF g.pure /\ Len(g.wlog) < 2
                      THEN [g EXCEPT !.wlog = Append(g.wlog, b)]
                      ELSE [g EXCEPT !.pure = FALSE, !.wlog = <<>>],
                      Args(g, OpN("Write", "nil", Len(b), <<>>), [b |-> b]), <<>>)

\* WriteAt putting the bytes at the end of the buffer.
WriteAtBufAppend(buffer, b, off) == buffer \o b

\* The buffer WriteAt leaves: grown with zeros when the write ends past the
\* end, then overlaid with b from off on.
WriteAtBuf(buffer, b, off) ==
  LET grown == IF off + Len(b) > Len(buffer)
               THEN buffer \o Zeros(off + Len(b) - Len(buffer))
               ELSE buffer
  IN  [i \in 1..Len(grown) |->
         IF i > off /\ i <= off + Len(b) THEN b[i - off] ELSE grown[i]]

\* File.WriteAt
WriteAt(h, b, off) ==
  LET f == file[h]
      g == Impure(fg[h])
  IN
  /\ f.open
  /\ UNCHANGED store
  /\ IF WriteModeErr(f)
     THEN FileOnly(h, f, g, Op("WriteAt", "ErrWriteOnReadFile"), <<>>)
     ELSE /\ off + Len(b) <= MaxBuf
          /\ FileOnly(h, [f EXCEPT !.buffer = WriteAtBuf(f.buffer, b, off)], g,
                      Args(g, OpN("WriteAt", "nil", Len(b), <<>>),
                           [b |-> b, off |-> off, old |-> Len(f.buffer)]),
                      <<>>)

\* Truncate that never cuts.
TruncateBufNoCut(buffer, size) ==
  IF size < Len(buffer) THEN buffer ELSE buffer \o Zeros(size - Len(buffer))

\* The buffer Truncate leaves.
TruncateBuf(buffer, size) ==
  IF size < Len(buffer) THEN SubSeq(buffer, 1, size)
  ELSE buffer \o Zeros(size - Len(buffer))

\* The run of Truncate calls the ghost follows: the last two.
LastTwo(seq) == IF Len(seq) > 2 THEN SubSeq(seq, Len(seq) - 1, Len(seq)) ELSE seq

\* File.Truncate
Truncate(h, size) ==
  LET f == file[h]
      g == Impure(fg[h])
  IN
  /\ f.open
  /\ UNCHANGED store
  /\ IF WriteModeErr(f)
     THEN FileOnly(h, f, g, Op("Truncate", "ErrWriteOnReadFile"), <<>>)
     ELSE FileOnly(h, [f EXCEPT !.buffer = TruncateBuf(f.buffer, size)],
                   IF g.hist
                   THEN [g EXCEPT !.tlog = LastTwo(Append(g.tlog, [before |-> f.buffer,
                                                                   size |-> size]))]
                   ELSE g,
                   Op("Truncate", "nil"), <<>>)

SeekStart == 0
SeekCurrent == 1
SeekEnd == 2

\* Seek taking every offset as absolute.
SeekPosAbsolute(f, offset, whence) == offset

\* f.offset after Seek(offset, whence).
SeekPos(f, offset, whence) ==
  IF whence = SeekStart THEN offset
  ELSE IF whence = SeekCurrent THEN f.offset + offset
  ELSE f.offset

\* File.Seek; the result is returned as the call's n.
Seek(h, offset, whence) ==
  LET f == file[h]
      g == Impure(fg[h])
      pos == SeekPos(f, offset, whence)
      args == [offset |-> offset, whence |-> whence, old |-> f.offset]
  IN
  /\ f.open
  /\ UNCHANGED store
  /\ IF whence = SeekEnd
     THEN FileOnly(h, f, g, Args(g, Op("Seek", "ErrInvalidSeek"), args), <<>>)
     ELSE FileOnly(h, [f EXCEPT !.offset = pos], g,
                   Args(g, OpN("Seek", "nil", pos, <<>>), args), <<>>)

\* Sync uploading the buffer of a write-mode File.
SyncFlush(h) ==
  /\ file[h].open
  /\ store' = IF file[h].writing THEN PutObject(store, file[h].key, file[h].buffer)
              ELSE store
  /\ FileOnly(h, file[h], Impure(fg[h]), Op("Sync", "nil"),
              IF file[h].writing THEN <<Req("PutObject", file[h].key)>> ELSE <<>>)

\* File.Sync: nothing.
Sync(h) ==
  /\ file[h].open
  /\ UNCHANGED store
  /\ FileOnly(h, file[h], Impure(fg[h]), Op("Sync", "nil"), <<>>)

\* Close sending nothing.
CloseUploadsNever(f) == FALSE

\* Whether Close uploads the buffer.
CloseUploads(f) == f.writing

\* File.Close; putOk: the PutObject request succeeds.
Close(h, putOk) ==
  LET f == file[h]
      g == fg[h]
      f1 == IF f.body.nil THEN f ELSE [f EXCEPT !.body.closed = TRUE]
      g1 == [g EXCEPT !.pure = FALSE, !.wlog = IF g.pure THEN g.wlog ELSE <<>>]
  IN
  /\ f.open
  /\ IF CloseUploads(f)
     THEN IF putOk
          THEN /\ g.puts < MaxPuts
               /\ store' = PutObject(store, f.key, f.buffer)
               /\ FileOnly(h, f1, [g1 EXCEPT !.puts = g.puts + 1],
                           Op("Close", "nil"), <<Req("PutObject", f.key)>>)
          ELSE /\ UNCHANGED store
               /\ FileOnly(h, f1, g1, Op("Close", "S3Error"), <<Req("PutObject", f.key)>>)
     ELSE /\ UNCHANGED store
          /\ FileOnly(h, f1, g1, Op("Close", "nil"), <<>>)

\* ------------------------------------------------------------- initial state
NoSession ==
  [started |-> FALSE, key |-> <<>>, uploadID |-> "", partNumber |-> 0, parts |-> <<>>,
   partSize |-> 0]
NoUpload == [state |-> "none", parts |-> <<>>]
NoSessGhost == [accepted |-> <<>>, sentNums |-> <<>>, calls |-> 0]
Threads == {"t1", "t2"}
IdleThread == [pc |-> "idle", etag |-> <<>>, num |-> 0, tmpParts |-> <<>>, tmpNum |-> 0]
IdleWalk ==
  [pc |-> "idle", arg |-> <<>>, root |-> <<>>, token |-> <<>>, page |-> <<>>,
   truncated |-> FALSE, next |-> <<>>, visited |-> {}, visits |-> <<>>, errCalls |-> 0,
   lists |-> 0, skipped |-> 0, failed |-> FALSE, result |-> "nil",
   statFailed |-> FALSE, fnRet |-> "none", errArgs |-> <<>>]
IdleRemove ==
  [pc |-> "idle", arg |-> <<>>, name |-> <<>>, token |-> <<>>, page |-> <<>>,
   truncated |-> FALSE, next |-> <<>>, lists |-> 0, failed |-> FALSE, result |-> "nil",
   store0 |-> <<>>, calls |-> 0, prevArg |-> <<>>, dels |-> {}, reqs |-> 0, failAt |-> 0]
IdleMkdir ==
  [pc |-> "idle", arg |-> <<>>, dirs |-> <<>>, i |-> 0, result |-> "nil",
   probes |-> <<>>, puts |-> <<>>, store0 |-> <<>>,
   exKey |-> <<>>, exRet |-> FALSE, exHeadOk |-> FALSE]
IdleReadAt ==
  [pc |-> "idle", n |-> 0, off |-> 0, range |-> <<>>, resp |-> <<>>, out |-> <<>>,
   err |-> "nil"]
\* The locals of an UploadFromReader call: len is len(buf), src the number of
\* bytes the reader holds and pos how many of them were read; n and rerr are
\* what the last io.ReadFull returned, uerr what the last UploadPart returned.
\* For the properties: reads and ups count the calls made, sent lists the
\* slices of the source the bucket accepted.
IdleUpload ==
  [pc |-> "idle", len |-> 0, src |-> 0, pos |-> 0, n |-> 0, rerr |-> "nil", uerr |-> "nil",
   err |-> "nil", reads |-> 0, ups |-> 0, sent |-> <<>>]

InitRest ==
  /\ lastOp = NoOp
  /\ lastReqs = <<>>
  /\ file = [h \in Handles |-> NoFile]
  /\ fg = [h \in Handles |-> NoGhost]
  /\ mu = NoSession
  /\ up = NoUpload
  /\ sg = NoSessGhost
  /\ thr = [t \in Threads |-> IdleThread]
  /\ wk = IdleWalk
  /\ rm = IdleRemove
  /\ mk = IdleMkdir
  /\ ra = [t \in Threads |-> IdleReadAt]
  /\ uf = IdleUpload

\* ------------------------------------------------- one File, used in sequence
FileInit ==
  /\ store \in {<<>>, kF :> <<1, 0>>}
  /\ InitRest

FileNext ==
  \E h \in {"h1"} :
    \/ \E name \in {kF, Slash \o kF}, wflag \in BOOLEAN : OpenFile(h, name, wflag)
    \/ \E n \in 0..MaxData, getOk \in BOOLEAN, rdOk \in BOOLEAN, k \in 1..MaxData :
         Read(h, n, getOk, rdOk, k)
    \/ \E n \in 1..MaxData, off \in 0..MaxBuf, getOk \in BOOLEAN : ReadAt(h, n, off, getOk)
    \/ \E b \in DataArgs : Write(h, b)
    \/ \E b \in DataArgs, off \in 0..MaxBuf : WriteAt(h, b, off)
    \/ \E size \in 0..MaxBuf : Truncate(h, size)
    \/ \E offset \in -1..MaxBuf, whence \in {SeekStart, SeekCurrent, SeekEnd} :
         /\ SeekPos(file[h], offset, whence) \in -1..MaxBuf
         /\ Seek(h, offset, whence)
    \/ Sync(h)
    \/ \E putOk \in BOOLEAN : Close(h, putOk)

FileSpec == FileInit /\ [][FileNext]_vars

\* ------------------------------------- one write-mode File and its buffer
HistInit ==
  /\ store \in {<<>>, kF :> <<1, 0>>}
  /\ lastOp = NoOp
  /\ lastReqs = <<>>
  /\ file = [h \in Handles |-> NoFile]
  /\ fg = [h \in Handles |-> HistGhost]
  /\ mu = NoSession
  /\ up = NoUpload
  /\ sg = NoSessGhost
  /\ thr = [t \in Threads |-> IdleThread]
  /\ wk = IdleWalk
  /\ rm = IdleRemove
  /\ mk = IdleMkdir
  /\ ra = [t \in Threads |-> IdleReadAt]
  /\ uf = IdleUpload

BufNext ==
  \E h \in {"h1"} :
    \/ \E name \in {kF}, wflag \in BOOLEAN : OpenFile(h, name, wflag)
    \/ \E b \in DataArgs : Write(h, b)
    \/ \E b \in DataArgs, off \in 0..MaxBuf : WriteAt(h, b, off)
    \/ \E size \in 0..MaxBuf : Truncate(h, size)

BufSpec == HistInit /\ [][BufNext]_vars

\* The object at key, as a set: empty when the key holds none.
ObjectAt(s, key) == IF key \in DOMAIN s THEN {s[key]} ELSE {}

\* ------------------------------------------ two writing Files on one key
\* Each File has its own buffer; the calls on the two interleave freely, one
\* PutObject being one step of the bucket.
TwoNext ==
  \E h \in Handles :
    \/ \E name \in {kF, Slash \o kF} : OpenFile(h, name, TRUE)
    \/ \E b \in DataArgs : Write(h, b)
    \/ \E putOk \in BOOLEAN : Close(h, putOk)

TwoSpec == FileInit /\ [][TwoNext]_vars

\* C33: with two write-mode Files on one key, every successful Close makes
\* the object the whole buffer of the File it was called on, and no other
\* step changes the bucket: the object is the buffer, as it was at its Close,
\* of the File closed last.
C33_LastCloseWins ==
  /\ [][\A h \in Handles :
          (lastOp'.who = h /\ lastOp'.name = "Close" /\ lastOp'.err = "nil" /\ file[h].writing)
            => /\ ObjectAt(store', file[h].key) = {file[h].buffer}
               /\ \A k \in DOMAIN store \ {file[h].key} :
                    k \in DOMAIN store' /\ store'[k] = store[k]]_vars
  /\ [][(lastOp'.name # "Close" \/ lastOp'.err # "nil") => store' = store]_vars
  /\ [](\A h \in Handles :
          (lastOp.who = h /\ lastOp.name = "Close" /\ lastOp.err = "nil" /\ file[h].writing)
            => ObjectAt(store, file[h].key) = {file[h].buffer})

C33_Witness ==
  /\ lastOp.who = "h2" /\ lastOp.name = "Close" /\ lastOp.err = "nil"
  /\ fg["h1"].puts = 1 /\ fg["h2"].puts = 1
  /\ file["h1"].key = file["h2"].key
  /\ Len(file["h1"].buffer) = 2 /\ Len(file["h2"].buffer) = 2
  /\ file["h1"].buffer # file["h2"].buffer
  /\ store[file["h2"].key] = file["h2"].buffer

\* --------------------------------------- a reading File and a writing File
\* h1 reads the object that h2 writes.
ReadNext ==
  \/ OpenFile("h1", kF, FALSE)
  \/ OpenFile("h2", kF, TRUE)
  \/ \E n \in 0..MaxBuf, getOk \in BOOLEAN, rdOk \in BOOLEAN, k \in 1..MaxData :
       Read("h1", n, getOk, rdOk, k)
  \/ \E putOk \in BOOLEAN : Close("h1", putOk)
  \/ \E b \in DataArgs : Write("h2", b)
  \/ \E putOk \in BOOLEAN : Close("h2", putOk)

ReadSpec == HistInit /\ [][ReadNext]_vars

\* C25: OpenFile of a read-mode File sends nothing; a Read sends one GetObject
\* for the object as long as none has succeeded and none afterwards; the bytes
\* the Reads return from then on are those of the object as it was when the
\* request succeeded, all of them once Read has returned io.EOF.
C25_LazyFetchOneStream ==
  /\ [](\A h \in Handles :
          (file[h].open /\ ~file[h].writing)
          => /\ IsPrefixOf(fg[h].rlog, fg[h].fetched)
             /\ fg[h].eof => fg[h].rlog = fg[h].fetched
             /\ file[h].body.nil => fg[h].rlog = <<>>)
  /\ [][\A h \in Handles :
          /\ (lastOp'.who = h /\ lastOp'.name = "OpenFile") => lastReqs' = <<>>
          /\ (lastOp'.who = h /\ lastOp'.name = "Read" /\ ~file[h].writing)
               => lastReqs' = IF file[h].body.nil
                              THEN <<Req("GetObject", file[h].key)>> ELSE <<>>]_vars

C25_Witness ==
  /\ file["h1"].open /\ ~file["h1"].writing
  /\ fg["h1"].eof
  /\ fg["h1"].rlog = <<1, 0>>
  /\ fg["h1"].getFailed
  /\ store[kF] # <<1, 0>>
  /\ lastOp.who = "h1" /\ lastOp.name = "Read"

\* ------------------------------------------- concurrent ReadAt on one File
\* ReadAt asking for one byte more than the caller's buffer holds.
RangeOfOneMore(off, n) == [first |-> off, last |-> off + n]

\* The Range header of ReadAt: "bytes=off-(off+len(b)-1)", both ends included.
RangeOf(off, n) == [first |-> off, last |-> off + n - 1]

\* The body of a ranged GetObject: the bytes of the object in the range.
RangeBody(obj, range) == SubSeq(obj, range.first + 1, Min(range.last + 1, Len(obj)))

\* io.ReadFull(body, b) with len(b) = n: the bytes read and the error.
ReadFull(resp, n) ==
  [out |-> SubSeq(resp, 1, Min(n, Len(resp))),
   err |-> IF Len(resp) >= n THEN "nil"
           ELSE IF Len(resp) = 0 THEN "EOF" ELSE "ErrUnexpectedEOF"]

ReadAtStep(t, r, op, reqs) ==
  /\ ra' = [ra EXCEPT ![t] = r]
  /\ lastOp' = [op EXCEPT !.who = "h1"]
  /\ lastReqs' = reqs
  /\ UNCHANGED <<store, fileVars, sessVars, wk, rm, mk, uf>>

\* ReadAt, its mode check.
RA_Call(t, n, off) ==
  /\ ra[t].pc \in {"idle", "done"}
  /\ file["h1"].open
  /\ IF ReadModeErr(file["h1"])
     THEN ReadAtStep(t, [IdleReadAt EXCEPT !.pc = "done", !.n = n, !.off = off,
                                           !.err = "ErrReadOnWriteFile"],
                     Op("ReadAt", "ErrReadOnWriteFile"), <<>>)
     ELSE ReadAtStep(t, [IdleReadAt EXCEPT !.pc = "get", !.n = n, !.off = off,
                                           !.range = RangeOf(off, n)],
                     Op("ReadAt.call", "nil"), <<>>)

\* ReadAt, its GetObject; getOk: the request is not failed in transit.  The
\* bucket refuses a range that starts at or after the end of the object.
RA_Get(t, getOk) ==
  LET r == ra[t]
      key == file["h1"].key
      reqs == <<[op |-> "GetObject", key |-> key, range |-> r.range]>>
      got == getOk /\ HeadObject(store, key) /\ r.range.first < Len(store[key])
  IN
  /\ r.pc = "get"
  /\ IF got
     THEN ReadAtStep(t, [r EXCEPT !.pc = "read", !.resp = RangeBody(store[key], r.range)],
                     Op("ReadAt.get", "nil"), reqs)
     ELSE ReadAtStep(t, [r EXCEPT !.pc = "done", !.err = "S3Error"],
                     Op("ReadAt", "S3Error"), reqs)

\* ReadAt, its io.ReadFull and return.
RA_ReadFull(t, rdOk) ==
  LET r == ra[t]
      res == ReadFull(r.resp, r.n)
  IN
  /\ r.pc = "read"
  /\ IF rdOk
     THEN ReadAtStep(t, [r EXCEPT !.pc = "done", !.out = res.out, !.err = res.err],
                     OpN("ReadAt", res.err, Len(res.out), res.out), <<>>)
     ELSE ReadAtStep(t, [r EXCEPT !.pc = "done", !.err = "S3Error"],
                     Op("ReadAt", "S3Error"), <<>>)

ReadAtNext ==
  \/ \E wflag \in BOOLEAN : OpenFile("h1", kF, wflag)
  \/ \E getOk \in BOOLEAN : Read("h1", 1, getOk, TRUE, 1)
  \/ \E offset \in {2} :
       /\ file["h1"].offset # offset
       /\ Seek("h1", offset, SeekStart)
  \/ \E t \in Threads, n \in 1..MaxBuf, off \in 0..MaxBuf : RA_Call(t, n, off)
  \/ \E t \in Threads, getOk \in BOOLEAN : RA_Get(t, getOk)
  \/ \E t \in Threads, rdOk \in BOOLEAN : RA_ReadFull(t, rdOk)

ReadAtSpec == FileInit /\ [][ReadAtNext]_vars

ReadAtOps == {"ReadAt", "ReadAt.call", "ReadAt.get"}

\* C26: every ReadAt on a read-mode File sends its own GetObject for the bytes
\* [off, off+len(b)) and leaves the File, with its stream and position, as it
\* was; with any number of ReadAt calls under way at once, a call returns the
\* bytes of the object in that range, as it would alone.
C26_ReadAtIndependent ==
  /\ [](\A t \in Threads :
          LET r == ra[t]
              key == file["h1"].key
              len == IF key \in DOMAIN store THEN Len(store[key]) ELSE 0
          IN  /\ (r.pc \in {"get", "read"} \/ (r.pc = "done" /\ r.range # <<>>))
                   => r.range = [first |-> r.off, last |-> r.off + r.n - 1]
              /\ (r.pc = "done" /\ r.err \in {"nil", "ErrUnexpectedEOF"})
                   => /\ r.out = SubSeq(store[key], r.off + 1, Min(r.off + r.n, len))
                      /\ (r.err = "nil") = (r.off + r.n <= len))
  /\ [][lastOp'.name \in ReadAtOps
          => /\ file' = file
             /\ store' = store
             /\ \A t \in Threads : ra'[t] # ra[t] => \A u \in Threads \ {t} : ra'[u] = ra[u]
             /\ lastOp'.name = "ReadAt.get" => Len(lastReqs') = 1]_vars

C26_Witness ==
  /\ ra["t1"].pc = "done" /\ ra["t1"].err = "nil" /\ ra["t1"].out = <<0>>
  /\ ra["t2"].pc = "read" /\ ra["t2"].off = 0 /\ ra["t2"].n = 2
  /\ ~file["h1"].writing /\ file["h1"].body.pos = 1 /\ file["h1"].offset = 2

\* --------------------------------- one writing File, its buffer and position
AppendNext ==
  \E h \in {"h1"} :
    \/ OpenFile(h, kF, TRUE)
    \/ \E b \in DataArgs : Write(h, b)
    \/ \E b \in DataArgs, off \in {0, 1} : WriteAt(h, b, off)
    \/ \E size \in {0, MaxBuf} : Truncate(h, size)
    \/ \E offset \in {-1, 0}, whence \in {SeekStart, SeekCurrent} :
         /\ SeekPos(file[h], offset, whence) \in -1..MaxBuf
         /\ Seek(h, offset, whence)

AppendSpec == HistInit /\ [][AppendNext]_vars

\* C35: Write(b) on a write-mode File returns nil and leaves the buffer as
\* the old buffer followed by b, wherever the position is and whatever Seek,
\* WriteAt and Truncate calls came before.
C35_WriteAppends ==
  [][\A h \in Handles :
       (lastOp'.who = h /\ lastOp'.name = "Write" /\ file[h].writing)
         => /\ lastOp'.err = "nil"
            /\ file'[h].buffer = file[h].buffer \o lastOp'.args.b
            /\ Len(file'[h].buffer) = Len(file[h].buffer) + Len(lastOp'.args.b)
            /\ SubSeq(file'[h].buffer, 1, Len(file[h].buffer)) = file[h].buffer]_vars

C35_Witness ==
  /\ lastOp.who = "h1" /\ lastOp.name = "Write" /\ lastOp.err = "nil"
  /\ Len(lastOp.args.b) = 1
  /\ file["h1"].offset = 1 /\ Len(file["h1"].buffer) = 2
  /\ lastOp.args.b = <<file["h1"].buffer[2]>>

\* ------------------------------------------------- one File and its position
SeekOffsets == {-1, 0, 5, 10}

PosNext ==
  \E h \in {"h1"} :
    \/ \E name \in {kF}, wflag \in BOOLEAN : OpenFile(h, name, wflag)
    \/ \E offset \in SeekOffsets, whence \in {SeekStart, SeekCurrent, SeekEnd} :
         /\ SeekPos(file[h], offset, whence) \in -1..MaxPos
         /\ Seek(h, offset, whence)

PosSpec == HistInit /\ [][PosNext]_vars

\* C23: Seek(o, SeekStart) sets the position to o and returns it;
\* Seek(o, SeekCurrent) sets it to the old position plus o and returns it, so
\* that Seek(5, SeekCurrent) at position 10 gives 15; Seek(o, SeekEnd) fails
\* with ErrInvalidSeek and leaves the position as it was.
C23_SeekSetsPosition ==
  /\ [](\A h \in Handles :
          (/\ lastOp.who = h /\ lastOp.name = "Seek"
           /\ lastOp.args.whence = SeekCurrent
           /\ lastOp.args.offset = 5 /\ lastOp.args.old = 10)
          => (lastOp.err = "nil" /\ lastOp.n = 15 /\ file[h].offset = 15))
  /\ [][\A h \in Handles :
          (lastOp'.who = h /\ lastOp'.name = "Seek")
          => LET o == lastOp'.args.offset
                 w == lastOp'.args.whence
             IN  /\ w = SeekStart
                      => (lastOp'.err = "nil" /\ file'[h].offset = o /\ lastOp'.n = o)
                 /\ w = SeekCurrent
                      => /\ lastOp'.err = "nil"
                         /\ file'[h].offset = file[h].offset + o
                         /\ lastOp'.n = file[h].offset + o
                 /\ w = SeekEnd
                      => (lastOp'.err = "ErrInvalidSeek" /\ file'[h] = file[h])]_vars

C23_Witness ==
  \E h \in Handles :
    /\ lastOp.who = h /\ lastOp.name = "Seek" /\ lastOp.err = "nil"
    /\ lastOp.args = [offset |-> 5, whence |-> SeekCurrent, old |-> 10]
    /\ file[h].offset = 15


\* C1: a write-mode File uploads its buffer at most once, whatever calls are
\* made on it: a second Close does not put the object again.
C1_AtMostOneUpload == \A h \in Handles : fg[h].puts <= 1

\* C2: on a write-mode File, Write(b1), Write(b2), Close, all succeeding and
\* nothing else called, leave b1 ++ b2 as the object at the File's key.
C2_WriteWriteClose ==
  \A h \in Handles :
    (/\ lastOp.who = h /\ lastOp.name = "Close" /\ lastOp.err = "nil"
     /\ file[h].writing /\ Len(fg[h].wlog) = 2)
    => ObjectAt(store, file[h].key) = {fg[h].wlog[1] \o fg[h].wlog[2]}

C2_Witness ==
  \E h \in Handles :
    /\ lastOp.who = h /\ lastOp.name = "Close" /\ lastOp.err = "nil"
    /\ file[h].writing /\ Len(fg[h].wlog) = 2
    /\ fg[h].wlog[1] = <<1>> /\ fg[h].wlog[2] = <<0>>
    /\ store[file[h].key] = <<1, 0>>

BufferOps == {"Write", "WriteAt", "Truncate", "Seek", "Sync"}

\* C3: Write, WriteAt, Truncate, Seek and Sync on a write-mode File issue no
\* store request and leave the bucket as it was; the object at the File's key
\* changes only in a Close.
C3_BufferOpsStayLocal ==
  [][\A h \in Handles :
       (file[h].open /\ file[h].writing /\ lastOp'.who = h)
       => /\ lastOp'.name \in BufferOps => (store' = store /\ lastReqs' = <<>>)
          /\ ObjectAt(store', file[h].key) # ObjectAt(store, file[h].key)
               => lastOp'.name = "Close"]_vars

C3_Witness ==
  \E h \in Handles :
    /\ lastOp.who = h /\ lastOp.name = "Sync" /\ file[h].writing
    /\ file[h].buffer = <<0, 1>> /\ file[h].key \notin DOMAIN store

\* C4: a File's mode never changes, and a wrong-mode call fails with the mode
\* error and no effect: Read/ReadAt on a write-mode File and Write/WriteAt/
\* Truncate on a read-mode File issue no request and leave File and bucket as
\* they were; a read-mode File never has a buffer, a write-mode File never a
\* response body.
C4_ModeMismatch ==
  /\ [](\A h \in Handles :
         file[h].open =>
           IF file[h].writing THEN file[h].body.nil
           ELSE file[h].bufnil /\ file[h].buffer = <<>>)
  /\ [][\A h \in Handles :
         file[h].open =>
           /\ file'[h].writing = file[h].writing
           /\ (lastOp'.who = h /\ file[h].writing /\ lastOp'.name \in {"Read", "ReadAt"})
                => /\ lastOp'.err = "ErrReadOnWriteFile"
                   /\ lastReqs' = <<>> /\ file' = file /\ store' = store
           /\ (lastOp'.who = h /\ ~file[h].writing
                /\ lastOp'.name \in {"Write", "WriteAt", "Truncate"})
                => /\ lastOp'.err = "ErrWriteOnReadFile"
                   /\ lastReqs' = <<>> /\ file' = file /\ store' = store]_vars

C4_Witness ==
  \E h \in Handles :
    /\ lastOp.who = h /\ lastOp.name = "WriteAt" /\ lastOp.err = "ErrWriteOnReadFile"
    /\ ~file[h].writing /\ ~file[h].body.nil /\ file[h].body.pos = 1

C4_WitnessRead ==
  \E h \in Handles :
    /\ lastOp.who = h /\ lastOp.name = "Read" /\ lastOp.err = "ErrReadOnWriteFile"
    /\ file[h].writing /\ file[h].buffer = <<1, 0>>

\* ------------------------------------------------------ struct MultipartUpload
\* C21: WriteAt(b, off) on a write-mode File whose buffer had length L leaves
\* a buffer of length max(L, off + len(b)) that holds b at [off, off+len(b)),
\* zeros at [L, off), and the old bytes everywhere else below L.
C21_WriteAtOverlay ==
  [][\A h \in Handles :
       (lastOp'.who = h /\ lastOp'.name = "WriteAt" /\ lastOp'.err = "nil")
       => LET old == file[h].buffer
              new == file'[h].buffer
              b == lastOp'.args.b
              off == lastOp'.args.off
              L == Len(old)
          IN  /\ Len(new) = Max(L, off + Len(b))
              /\ Len(new) >= L
              /\ \A i \in 1..Len(b) : new[off + i] = b[i]
              /\ \A i \in (L + 1)..off : new[i] = 0
              /\ \A i \in 1..L : (i <= off \/ i > off + Len(b)) => new[i] = old[i]]_vars

C21_Witness ==
  \E h \in Handles :
    /\ lastOp.who = h /\ lastOp.name = "WriteAt" /\ lastOp.err = "nil"
    /\ lastOp.args.old < lastOp.args.off
    /\ lastOp.args.b = <<1>>
    /\ file[h].buffer = <<0, 1>>

\* C22: Truncate(size) leaves exactly size bytes: the first min(size, old
\* length) as they were, the rest zero; Truncate(n) then Truncate(m), m > n,
\* leaves m bytes: the first n as after the first call, zeros at [n, m), never
\* the bytes the first call cut off.
C22_TruncateResizes ==
  \A h \in Handles :
    LET t == fg[h].tlog
        new == file[h].buffer
    IN  /\ Len(t) >= 1 =>
              LET last == t[Len(t)]
                  keep == Min(last.size, Len(last.before))
              IN  /\ Len(new) = last.size
                  /\ \A i \in 1..keep : new[i] = last.before[i]
                  /\ \A i \in (keep + 1)..last.size : new[i] = 0
        /\ (Len(t) = 2 /\ t[2].size > t[1].size) =>
              LET keep == Min(t[1].size, Len(t[1].before))
              IN  /\ Len(new) = t[2].size
                  /\ \A i \in 1..keep : new[i] = t[1].before[i]
                  /\ \A i \in (keep + 1)..t[2].size : new[i] = 0

C22_Witness ==
  \E h \in Handles :
    /\ Len(fg[h].tlog) = 2
    /\ fg[h].tlog[1] = [before |-> <<1, 1>>, size |-> 1]
    /\ fg[h].tlog[2].size = 2
    /\ file[h].buffer = <<1, 0>>

\* C24: a successful Read that returned n bytes and a successful Write of n
\* bytes leave the File's position (f.offset, what Seek(0, SeekCurrent)
\* returns) at its old value plus n.
C24_PositionAdvances ==
  [][\A h \in Handles :
       (lastOp'.who = h /\ lastOp'.name \in {"Read", "Write"} /\ lastOp'.err = "nil")
       => file'[h].offset = file[h].offset + lastOp'.n]_vars

\* The same for Write alone.
C24_WriteAdvances ==
  [][\A h \in Handles :
       (lastOp'.who = h /\ lastOp'.name = "Write" /\ lastOp'.err = "nil")
       => file'[h].offset = file[h].offset + lastOp'.n]_vars

MinPartSize == 5 * 1024 * 1024
DefaultPartSize == 10 * 1024 * 1024

\* trimPrefix: drop one leading slash.
trimPrefix(s) == IF Len(s) > 0 /\ s[1] = "/" THEN Tail(s) ELSE s

\* The bucket's side of a multipart upload.  A part sent under a number
\* replaces the part held under it; the tag the bucket issues stands for the
\* part's content.
StoreUploadPart(u, n, body) ==
  [u EXCEPT !.parts = [k \in DOMAIN u.parts \cup {n} |-> IF k = n THEN body ELSE u.parts[k]]]
ETagOf(body) == body
\* The bucket accepts a manifest that is not empty, ascends strictly in part
\* number and names, with its current tag, a part the upload holds.
ManifestValid(u, manifest) ==
  /\ manifest # <<>>
  /\ \A i \in 1..Len(manifest) :
       /\ manifest[i].PartNumber \in DOMAIN u.parts
       /\ manifest[i].ETag = ETagOf(u.parts[manifest[i].PartNumber])
       /\ i > 1 => manifest[i - 1].PartNumber < manifest[i].PartNumber
\* A request that names a finished upload.  The bucket never takes a part for
\* it and never completes an aborted one; a Complete repeated on a completed
\* upload, and an Abort of a finished one, it may answer with success again
\* (idem) or with NoSuchUpload.
AnswersFinished(call, state, idem) ==
  /\ idem
  /\ \/ call = "Complete" /\ state = "completed"
     \/ call = "Abort" /\ state \in {"completed", "aborted"}
RECURSIVE Assemble(_, _)
Assemble(u, manifest) ==
  IF manifest = <<>> THEN <<>>
  ELSE u.parts[Head(manifest).PartNumber] \o Assemble(u, Tail(manifest))

RECURSIVE Concat(_)
Concat(ss) == IF ss = <<>> THEN <<>> ELSE Head(ss) \o Concat(Tail(ss))


\* A session call: the session, the bucket's upload and the ghost it leaves.
SessOnly(m, u, g, op, reqs) ==
  /\ mu' = m
  /\ up' = u
  /\ sg' = g
  /\ lastOp' = op
  /\ lastReqs' = reqs
  /\ UNCHANGED <<fileVars, treeVars, thr>>

\* FileSystem.NewMultipartUpload; ok: CreateMultipartUpload succeeds.
NewMultipartUpload(name, ok) ==
  LET key == trimPrefix(name)
      reqs == <<Req("CreateMultipartUpload", key)>>
  IN
  /\ ~mu.started
  /\ up.state = "none"
  /\ UNCHANGED store
  /\ IF ok
     THEN SessOnly([started |-> TRUE, key |-> key, uploadID |-> "u1", partNumber |-> 1,
                    parts |-> <<>>, partSize |-> DefaultPartSize],
                   [state |-> "active", parts |-> <<>>], NoSessGhost,
                   Op("NewMultipartUpload", "nil"), reqs)
     ELSE SessOnly(mu, up, sg, Op("NewMultipartUpload", "S3Error"), reqs)

\* errors.Unwrap: the error an S3Error wraps; the package's sentinel errors
\* and the client's errors wrap none.
Unwrap(err) ==
  CASE err = "S3Error(ErrInvalidSeek)" -> "ErrInvalidSeek"
    [] err = "S3Error" -> "ClientError"
    [] OTHER -> "nil"

\* errors.Is: target is err or an error in the chain err wraps.
RECURSIVE ErrorsIs(_, _)
ErrorsIs(err, target) ==
  IF err = "nil" THEN FALSE
  ELSE err = target \/ ErrorsIs(Unwrap(err), target)

\* SetPartSize accepting every size.
SizeBelowMinNever(size) == FALSE

\* The check SetPartSize makes on its argument.
SizeBelowMin(size) == size < MinPartSize

\* MultipartUpload.SetPartSize
SetPartSize(size) ==
  LET args == [size |-> size] IN
  /\ mu.started
  /\ UNCHANGED store
  /\ IF SizeBelowMin(size)
     THEN SessOnly(mu, up, sg,
                   [Op("SetPartSize", "S3Error(ErrInvalidSeek)") EXCEPT !.args = args], <<>>)
     ELSE SessOnly([mu EXCEPT !.partSize = size], up, sg,
                   [Op("SetPartSize", "nil") EXCEPT !.args = args], <<>>)

\* UploadPart advancing the counter before it records the part.
AfterUploadPartIncFirst(m, etag, failed) ==
  IF failed THEN m
  ELSE [m EXCEPT !.parts = Append(m.parts, [ETag |-> etag, PartNumber |-> m.partNumber + 1]),
                 !.partNumber = m.partNumber + 1]

\* UploadPart giving up the part number when the request fails.
UploadPartErrorSkip(m) == [m EXCEPT !.partNumber = m.partNumber + 1]

\* The session when the UploadPart request returned an error: the method
\* returns before it assigns any field.
UploadPartError(m) == m

\* The session once the UploadPart request has returned: unchanged on an
\* error, else the part recorded under the current number and the counter
\* advanced.
AfterUploadPart(m, etag, failed) ==
  IF failed THEN UploadPartError(m)
  ELSE [m EXCEPT !.parts = Append(m.parts, [ETag |-> etag, PartNumber |-> m.partNumber]),
                 !.partNumber = m.partNumber + 1]

\* UploadPart sending the slice without its last byte.
PartBodyShort(data) == IF data = <<>> THEN data ELSE SubSeq(data, 1, Len(data) - 1)

\* The body UploadPart sends: bytes.NewReader(data).
PartBody(data) == data

\* MultipartUpload.UploadPart called alone.  ok: the request succeeds;
\* applied: a request reported as failed reached the bucket all the same.
UploadPart(data, ok, applied) ==
  LET n == mu.partNumber
      reqs == <<Req("UploadPart", mu.key)>>
      live == up.state = "active"
      failed == ~(ok /\ live)
      u == IF live /\ (ok \/ applied) THEN StoreUploadPart(up, n, PartBody(data)) ELSE up
      g == IF failed THEN sg
           ELSE [sg EXCEPT !.accepted = Append(sg.accepted, data),
                           !.sentNums = Append(sg.sentNums, n)]
  IN
  /\ mu.started
  /\ mu.partNumber <= MaxParts
  /\ UNCHANGED store
  /\ SessOnly(AfterUploadPart(mu, ETagOf(PartBody(data)), failed), u, g,
              OpN("UploadPart", IF failed THEN "S3Error" ELSE "nil", n, <<>>), reqs)

\* The manifest Complete submits.
Manifest(m) == m.parts

\* MultipartUpload.Complete; ok: the request is not failed by the transport;
\* idem: how the bucket answers for a finished upload.
Complete(ok, idem) ==
  LET reqs == <<Req("CompleteMultipartUpload", mu.key)>>
      done == ok /\ up.state = "active" /\ ManifestValid(up, Manifest(mu))
      again == ok /\ AnswersFinished("Complete", up.state, idem)
  IN
  /\ mu.started
  /\ IF done
     THEN /\ store' = PutObject(store, mu.key, Assemble(up, Manifest(mu)))
          /\ SessOnly(mu, [state |-> "completed", parts |-> <<>>], sg,
                      Op("Complete", "nil"), reqs)
     ELSE /\ UNCHANGED store
          /\ SessOnly(mu, up, sg, Op("Complete", IF again THEN "nil" ELSE "S3Error"), reqs)

\* MultipartUpload.Abort
Abort(ok, idem) ==
  LET reqs == <<Req("AbortMultipartUpload", mu.key)>>
      done == ok /\ up.state = "active"
      again == ok /\ AnswersFinished("Abort", up.state, idem)
  IN
  /\ mu.started
  /\ UNCHANGED store
  /\ IF done
     THEN SessOnly(mu, [state |-> "aborted", parts |-> <<>>], sg, Op("Abort", "nil"), reqs)
     ELSE SessOnly(mu, up, sg, Op("Abort", IF again THEN "nil" ELSE "S3Error"), reqs)

PartSizes == {MinPartSize - 1, MinPartSize, DefaultPartSize}

\* --------------------------------------------- one session, used in sequence
SessInit ==
  /\ store \in {<<>>, kF :> <<1, 0>>}
  /\ InitRest

SessNext ==
  \/ \E name \in {kF, Slash \o kF}, ok \in BOOLEAN : NewMultipartUpload(name, ok)
  \/ \E size \in PartSizes : SetPartSize(size)
  \/ \E data \in DataArgs, ok \in BOOLEAN, applied \in BOOLEAN : UploadPart(data, ok, applied)
  \/ \E ok \in BOOLEAN, idem \in BOOLEAN : Complete(ok, idem)
  \/ \E ok \in BOOLEAN, idem \in BOOLEAN : Abort(ok, idem)

SessSpec == SessInit /\ [][SessNext]_vars

\* C5: under sequential UploadPart calls, failed ones included, the counter
\* starts at 1, parts is one shorter than the counter and the i-th recorded
\* part carries number i.
C5_PartsNumbered ==
  /\ (lastOp.name = "NewMultipartUpload" /\ lastOp.err = "nil")
       => (mu.partNumber = 1 /\ mu.parts = <<>>)
  /\ mu.started =>
       /\ mu.partNumber >= 1
       /\ Len(mu.parts) = mu.partNumber - 1
       /\ \A i \in 1..Len(mu.parts) : mu.parts[i].PartNumber = i

C5_Witness ==
  /\ lastOp.name = "UploadPart" /\ lastOp.err = "S3Error"
  /\ up.state = "active" /\ Len(mu.parts) = 2 /\ 3 \in DOMAIN up.parts

SessionCalls == {"UploadPart", "Complete", "Abort"}

\* C7: once Complete or Abort has succeeded, no UploadPart, Complete or Abort
\* on the session succeeds, none changes parts or the counter, and the bucket
\* gets no object from it.
C7_TerminalIsFinal ==
  [][(mu.started /\ up.state \in {"completed", "aborted"})
       => /\ mu'.parts = mu.parts /\ mu'.partNumber = mu.partNumber
          /\ up'.state = up.state
          /\ store' = store
          /\ lastOp'.name \in SessionCalls => lastOp'.err # "nil"]_vars

\* What does hold once the upload is finished: parts and the counter stay,
\* no UploadPart succeeds, the bucket's objects stay, and a Complete after an
\* Abort fails.
TerminalKeepsState ==
  [][(mu.started /\ up.state \in {"completed", "aborted"})
       => /\ mu'.parts = mu.parts /\ mu'.partNumber = mu.partNumber
          /\ up'.state = up.state
          /\ store' = store
          /\ lastOp'.name = "UploadPart" => lastOp'.err # "nil"
          /\ (lastOp'.name = "Complete" /\ up.state = "aborted") => lastOp'.err # "nil"]_vars

\* C8: the object at the session's key is untouched by the start and by every
\* UploadPart; a successful Complete makes it, in that one step, the accepted
\* parts concatenated in part-number order; after an Abort the session never
\* changes the bucket.
C8_ObjectOnComplete ==
  /\ [][lastOp'.name \in {"NewMultipartUpload", "SetPartSize", "UploadPart", "Abort"}
          => store' = store]_vars
  /\ []((lastOp.name = "Complete" /\ lastOp.err = "nil")
          => ObjectAt(store, mu.key) = {Concat(sg.accepted)})
  /\ [][up.state = "aborted" => store' = store]_vars

C8_Witness ==
  /\ lastOp.name = "Complete" /\ lastOp.err = "nil"
  /\ Len(sg.accepted) = 2 /\ Len(sg.accepted[1]) = 1 /\ Len(sg.accepted[2]) = 1
  /\ sg.accepted[1] # sg.accepted[2]
  /\ Len(store[mu.key]) = 2

\* C27: a failed UploadPart leaves the session as it was, so the next
\* UploadPart sends under the same part number; every request carries the
\* number right after the recorded parts, and the recorded numbers are
\* 1, 2, ... with none skipped and none twice.
C27_FailedPartKeepsSession ==
  /\ [][(lastOp'.name = "UploadPart" /\ lastOp'.err # "nil")
          => (mu' = mu /\ sg'.sentNums = sg.sentNums)]_vars
  /\ [][(lastOp.name = "UploadPart" /\ lastOp.err # "nil" /\ lastOp'.name = "UploadPart")
          => lastOp'.n = lastOp.n]_vars
  /\ []((mu.started /\ lastOp.name = "UploadPart")
          => /\ lastOp.n = Len(mu.parts) + (IF lastOp.err = "nil" THEN 0 ELSE 1)
             /\ \A i \in 1..Len(mu.parts) : mu.parts[i].PartNumber = i)

C27_Witness ==
  /\ lastOp.name = "UploadPart" /\ lastOp.err # "nil" /\ lastOp.n = 2
  /\ up.state = "active" /\ Len(mu.parts) = 1 /\ mu.partNumber = 2
  /\ 2 \in DOMAIN up.parts

\* C28: a session's partSize is never below MinPartSize: a new session has
\* DefaultPartSize, SetPartSize below the minimum fails and leaves partSize,
\* SetPartSize at or above the minimum succeeds and sets it.
C28_PartSizeAtLeastMin ==
  /\ [](mu.started => mu.partSize >= MinPartSize)
  /\ []((lastOp.name = "NewMultipartUpload" /\ lastOp.err = "nil")
          => (mu.partSize = DefaultPartSize /\ DefaultPartSize > MinPartSize))
  /\ [][lastOp'.name = "SetPartSize"
          => IF lastOp'.args.size < MinPartSize
             THEN lastOp'.err # "nil" /\ mu' = mu
             ELSE lastOp'.err = "nil" /\ mu' = [mu EXCEPT !.partSize = lastOp'.args.size]]_vars

C28_Witness ==
  /\ lastOp.name = "SetPartSize" /\ lastOp.err # "nil"
  /\ lastOp.args.size = MinPartSize - 1
  /\ mu.partSize = MinPartSize

\* C29: the error SetPartSize returns for a size below the minimum does not
\* match, under errors.Is, the error Seek returns for io.SeekEnd.
C29_ErrorKindsDistinct ==
  (lastOp.name = "SetPartSize" /\ lastOp.err # "nil")
    => ~ErrorsIs(lastOp.err, "ErrInvalidSeek")

\* C30: once the session has recorded a part, SetPartSize leaves partSize.
C30_PartSizeFixedAfterPart ==
  [][(lastOp'.name = "SetPartSize" /\ Len(mu.parts) >= 1)
       => mu'.partSize = mu.partSize]_vars

\* ------------------------------------------- UploadFromReader on one session
\* The reader's content is kept as its length; a slice of it is the pair of
\* offsets [lo, hi) it covers.  One step is one call the loop makes.

StreamStep(f, m, u, g, op, reqs) ==
  /\ uf' = f
  /\ mu' = m
  /\ up' = u
  /\ sg' = g
  /\ lastOp' = op
  /\ lastReqs' = reqs
  /\ UNCHANGED <<store, fileVars, thr, wk, rm, mk, ra>>

\* io.ReadFull(r, buf) on a reader with rem bytes left: the count it returns.
ReadFullN(len, rem) == Min(len, rem)
\* The error io.ReadFull returns with count n for a buffer of len bytes.
ReadFullErr(len, n) ==
  IF n >= len THEN "nil" ELSE IF n = 0 THEN "EOF" ELSE "ErrUnexpectedEOF"

EndOfData == {"EOF", "ErrUnexpectedEOF"}

\* UploadFromReader uploading a chunk of no bytes.
ChunkEmptyNever(n) == FALSE

\* The loop's test for a read that delivered nothing.
ChunkEmpty(n) == n = 0

\* UploadFromReader going on with the next chunk after a failed UploadPart.
AfterPartErrorGoOn(f, err) == [f EXCEPT !.pc = "read"]

\* The call once UploadPart has returned an error: it returns that error.
AfterPartError(f, err) == [f EXCEPT !.pc = "done", !.err = err]

\* buf := make([]byte, mu.partSize), entering the loop.
UF_Call(srcLen) ==
  /\ mu.started
  /\ uf.pc = "idle"
  /\ StreamStep([IdleUpload EXCEPT !.pc = "read", !.len = mu.partSize, !.src = srcLen],
                mu, up, sg, lastOp, <<>>)

\* io.ReadFull and the two tests after it; rdOk: the reader does not fail.
UF_Read(rdOk) ==
  LET n == IF rdOk THEN ReadFullN(uf.len, uf.src - uf.pos) ELSE 0
      rerr == IF rdOk THEN ReadFullErr(uf.len, n) ELSE "ReadError"
      f == [uf EXCEPT !.n = n, !.rerr = rerr, !.reads = uf.reads + 1, !.pos = uf.pos + n]
  IN
  /\ uf.pc = "read"
  /\ IF rerr # "nil" /\ rerr \notin EndOfData
     THEN StreamStep([f EXCEPT !.pc = "done", !.err = "S3Error"], mu, up, sg,
                     Op("UploadFromReader", "S3Error"), lastReqs)
     ELSE IF ChunkEmpty(n)
     THEN StreamStep([f EXCEPT !.pc = "done", !.err = "nil"], mu, up, sg,
                     Op("UploadFromReader", "nil"), lastReqs)
     ELSE StreamStep([f EXCEPT !.pc = "upload"], mu, up, sg, lastOp, lastReqs)

\* mu.UploadPart(buf[:n]) and the two tests after it.
UF_Upload(ok, applied) ==
  LET data == [lo |-> uf.pos - uf.n, hi |-> uf.pos]
      num == mu.partNumber
      reqs == Append(lastReqs, Req("UploadPart", mu.key))
      live == up.state = "active"
      failed == ~(ok /\ live)
      u == IF live /\ (ok \/ applied) THEN StoreUploadPart(up, num, PartBody(data)) ELSE up
      g == IF failed THEN sg
           ELSE [sg EXCEPT !.accepted = Append(sg.accepted, data),
                           !.sentNums = Append(sg.sentNums, num)]
      m == AfterUploadPart(mu, ETagOf(PartBody(data)), failed)
      f == [uf EXCEPT !.ups = uf.ups + 1, !.uerr = IF failed THEN "S3Error" ELSE "nil",
                      !.sent = IF failed THEN uf.sent ELSE Append(uf.sent, data)]
  IN
  /\ uf.pc = "upload"
  /\ mu.partNumber <= MaxParts
  /\ IF failed
     THEN LET r == AfterPartError(f, "S3Error") IN
          StreamStep(r, m, u, g,
                     IF r.pc = "done" THEN Op("UploadFromReader", r.err) ELSE lastOp, reqs)
     ELSE IF uf.rerr \in EndOfData
     THEN StreamStep([f EXCEPT !.pc = "done", !.err = "nil"], m, u, g,
                     Op("UploadFromReader", "nil"), reqs)
     ELSE StreamStep([f EXCEPT !.pc = "read"], m, u, g, lastOp, reqs)

StreamLens ==
  {0, 1, MinPartSize, MinPartSize + 1, DefaultPartSize, DefaultPartSize + 1,
   MaxParts * MinPartSize}

StreamNext ==
  \/ \E name \in {kF, Slash \o kF}, ok \in BOOLEAN : NewMultipartUpload(name, ok)
  \/ \E size \in PartSizes : uf.pc = "idle" /\ SetPartSize(size)
  \/ \E srcLen \in StreamLens : UF_Call(srcLen)
  \/ \E rdOk \in BOOLEAN : UF_Read(rdOk)
  \/ \E ok \in BOOLEAN, applied \in BOOLEAN : UF_Upload(ok, applied)

StreamSpec == SessInit /\ [][StreamNext]_vars

\* C31: an UploadFromReader call that returns nil on a reader of src bytes
\* with a buffer of len bytes has sent ceil(src / len) UploadPart requests,
\* all accepted, for the slices [0, len), [len, 2 len), ... of the reader in
\* that order, the last one ending at src and none empty; the session
\* records them as parts 1, 2, ... and the bucket holds them.
C31_PartsCoverSource ==
  (uf.pc = "done" /\ uf.err = "nil") =>
    LET k == Len(uf.sent) IN
    /\ k = (uf.src + uf.len - 1) \div uf.len
    /\ uf.ups = k
    /\ uf.pos = uf.src
    /\ \A i \in 1..k :
         /\ uf.sent[i].lo = (i - 1) * uf.len
         /\ uf.sent[i].hi = IF i < k THEN i * uf.len ELSE uf.src
         /\ uf.sent[i].hi - uf.sent[i].lo \in 1..uf.len
         /\ i < k => uf.sent[i].hi - uf.sent[i].lo = uf.len
    /\ Len(mu.parts) = k
    /\ \A i \in 1..k :
         /\ mu.parts[i] = [ETag |-> ETagOf(uf.sent[i]), PartNumber |-> i]
         /\ i \in DOMAIN up.parts /\ up.parts[i] = uf.sent[i]

C31_Witness ==
  /\ uf.pc = "done" /\ uf.err = "nil"
  /\ uf.len = MinPartSize /\ uf.src = DefaultPartSize + 1
  /\ Len(uf.sent) = 3 /\ uf.sent[3].hi - uf.sent[3].lo = 1

\* The loop ends cleanly on a source whose length is a multiple of the part
\* size, with no part after the last full one.
C31_WitnessMultiple ==
  /\ uf.pc = "done" /\ uf.err = "nil"
  /\ uf.len = MinPartSize /\ uf.src = DefaultPartSize /\ Len(uf.sent) = 2

\* C32: a failed read, and a failed UploadPart, end the call in that step
\* with an error; that step records no part, the parts accepted before it
\* stay recorded as 1, 2, ..., no read or UploadPart follows, and no step of
\* the call completes or aborts the upload.
C32_FailureStopsLoop ==
  /\ [][(uf.pc \in {"read", "upload"}
           /\ \/ uf'.reads # uf.reads /\ uf'.rerr = "ReadError"
              \/ uf'.ups # uf.ups /\ uf'.uerr # "nil")
          => /\ uf'.pc = "done" /\ uf'.err # "nil"
             /\ lastOp' = Op("UploadFromReader", uf'.err)
             /\ mu' = mu /\ uf'.sent = uf.sent]_vars
  /\ [][uf.pc = "done" => (uf'.reads = uf.reads /\ uf'.ups = uf.ups /\ mu' = mu)]_vars
  /\ [][uf.pc # "idle" => up'.state = up.state]_vars
  /\ []((uf.pc = "done" /\ uf.err # "nil")
          => /\ Len(mu.parts) = Len(uf.sent)
             /\ \A i \in 1..Len(mu.parts) :
                  mu.parts[i] = [ETag |-> ETagOf(uf.sent[i]), PartNumber |-> i]
             /\ uf.reads = Len(uf.sent) + 1
             /\ uf.ups = Len(uf.sent) + (IF uf.uerr = "nil" THEN 0 ELSE 1)
             /\ \A i \in 1..Len(lastReqs) :
                  lastReqs[i].op \notin {"CompleteMultipartUpload", "AbortMultipartUpload"})

C32_Witness ==
  /\ uf.pc = "done" /\ uf.err # "nil" /\ uf.uerr # "nil"
  /\ Len(uf.sent) = 1 /\ uf.ups = 2 /\ Len(mu.parts) = 1
  /\ uf.pos < uf.src

\* ------------------------------------- one session, UploadPart called in parallel
\* MultipartUpload.UploadPart holds no lock: between the statements below
\* another caller's statements may run.

ThreadStep(t, th, m, u, g, op, reqs) ==
  /\ thr' = [thr EXCEPT ![t] = th]
  /\ mu' = m
  /\ up' = u
  /\ sg' = g
  /\ lastOp' = op
  /\ lastReqs' = reqs
  /\ UNCHANGED <<store, fileVars, treeVars>>

\* The request is built from the counter and sent; on an error the call returns.
UP_Send(t, data, ok) ==
  LET n == mu.partNumber
      live == up.state = "active"
      failed == ~(ok /\ live)
      reqs == <<Req("UploadPart", mu.key)>>
  IN
  /\ mu.started
  /\ thr[t].pc = "idle"
  /\ sg.calls < MaxParts
  /\ IF failed
     THEN ThreadStep(t, thr[t], mu, up, [sg EXCEPT !.calls = sg.calls + 1],
                     Op("UploadPart", "S3Error"), reqs)
     ELSE ThreadStep(t, [thr[t] EXCEPT !.pc = "sent", !.etag = ETagOf(PartBody(data)),
                                       !.num = n],
                     mu, StoreUploadPart(up, n, PartBody(data)),
                     [sg EXCEPT !.calls = sg.calls + 1,
                                !.accepted = Append(sg.accepted, data),
                                !.sentNums = Append(sg.sentNums, n)],
                     Op("UploadPart.send", "nil"), reqs)

\* append(mu.parts, ...): the slice and the counter are read ...
UP_AppendLoad(t) ==
  /\ thr[t].pc = "sent"
  /\ ThreadStep(t, [thr[t] EXCEPT !.pc = "loaded", !.tmpParts = mu.parts,
                                  !.tmpNum = mu.partNumber],
                mu, up, sg, Op("UploadPart.append", "nil"), <<>>)

\* ... and the grown slice is stored.
UP_AppendStore(t) ==
  /\ thr[t].pc = "loaded"
  /\ ThreadStep(t, [thr[t] EXCEPT !.pc = "appended", !.tmpParts = <<>>, !.tmpNum = 0],
                [mu EXCEPT !.parts = Append(thr[t].tmpParts,
                                            [ETag |-> thr[t].etag,
                                             PartNumber |-> thr[t].tmpNum])],
                up, sg, Op("UploadPart.append", "nil"), <<>>)

\* mu.partNumber++: the counter is read ...
UP_IncLoad(t) ==
  /\ thr[t].pc = "appended"
  /\ ThreadStep(t, [thr[t] EXCEPT !.pc = "inc", !.tmpNum = mu.partNumber],
                mu, up, sg, Op("UploadPart.inc", "nil"), <<>>)

\* ... and stored one higher; the call returns nil.
UP_IncStore(t) ==
  /\ thr[t].pc = "inc"
  /\ ThreadStep(t, IdleThread, [mu EXCEPT !.partNumber = thr[t].tmpNum + 1],
                up, sg, Op("UploadPart", "nil"), <<>>)

ConcNext ==
  \/ \E name \in {kF}, ok \in BOOLEAN : NewMultipartUpload(name, ok)
  \/ \E t \in Threads :
       \/ \E data \in DataArgs, ok \in BOOLEAN : UP_Send(t, data, ok)
       \/ UP_AppendLoad(t)
       \/ UP_AppendStore(t)
       \/ UP_IncLoad(t)
       \/ UP_IncStore(t)

ConcSpec == SessInit /\ [][ConcNext]_vars

NoDuplicate(seq) == \A i, j \in 1..Len(seq) : i # j => seq[i] # seq[j]

\* C6: with UploadPart called by several callers at once, no two accepted
\* parts are sent or recorded under one number, and once every call has
\* returned parts holds 1..k once each, one shorter than the counter.
C6_ConcurrentNumbering ==
  /\ NoDuplicate(sg.sentNums)
  /\ NoDuplicate([i \in 1..Len(mu.parts) |-> mu.parts[i].PartNumber])
  /\ (\A t \in Threads : thr[t].pc = "idle")
       => /\ Len(mu.parts) = Len(sg.accepted)
          /\ Len(mu.parts) = mu.partNumber - 1 \/ ~mu.started
          /\ \A i \in 1..Len(mu.parts) : mu.parts[i].PartNumber = i

\* ------------------------------------------------------------ tree operations
\* One page of ListObjectsV2 under prefix, continued from token (<<>>: from the
\* start).  The bucket lists in key order and continues after the token's
\* key; it returns at most n new keys and, with repeat, returns the token's
\* key once more at the head of the page.
KeysAfter(s, prefix, token) ==
  SortKeys({k \in DOMAIN s : HasPrefix(k, prefix) /\ KeyLess(token, k)})
ListPage(s, prefix, token, n, repeat) ==
  LET after == KeysAfter(s, prefix, token)
      fresh == SubSeq(after, 1, Min(n, Len(after)))
      again == IF repeat /\ token \in DOMAIN s /\ HasPrefix(token, prefix)
               THEN <<token>> ELSE <<>>
  IN  [Contents |-> again \o fresh,
       IsTruncated |-> Len(after) > n,
       NextContinuationToken |-> IF Len(after) > n THEN fresh[Len(fresh)] ELSE <<>>]

\* A Stat whose info always says directory.
StatIsDirAlways(name) == TRUE

\* The key FileSystem.Stat probes for a name, and fileInfo.IsDir of the info
\* it returns.
StatKey(name) == TrimPrefix(name, Slash)
StatIsDir(name) == HasSuffix(StatKey(name), Slash)

TreeStep(op, reqs) ==
  /\ lastOp' = op
  /\ lastReqs' = reqs
  /\ UNCHANGED <<fileVars, sessVars, mk, ra, uf>>

\* Walk with every key taken as new.
AlreadyVisitedNever(visited, key) == FALSE

\* visited[key]
AlreadyVisited(visited, key) == key \in visited

\* What a call of fn returns.
FnReturn(fnOk) == IF fnOk THEN "nil" ELSE "fnErr"

\* Walk, up to its loop.  statOk: the HeadObject of Stat is not failed by the
\* transport; fnOk: fn returns nil.
WalkStart(arg, statOk, fnOk) ==
  LET root == TrimPrefix(arg, Slash)
      probe == root # <<>> /\ ~HasSuffix(root, Slash)
      found == probe /\ statOk /\ HeadObject(store, StatKey(root))
      reqs == IF probe THEN <<Req("HeadObject", StatKey(root))>> ELSE <<>>
  IN
  /\ wk.pc = "idle"
  /\ UNCHANGED <<store, rm>>
  /\ IF found /\ ~StatIsDir(root)
     THEN /\ wk' = [wk EXCEPT !.pc = "done", !.arg = arg, !.root = root,
                              !.visits = <<root>>,
                              !.fnRet = FnReturn(fnOk),
                              !.result = FnReturn(fnOk)]
          /\ TreeStep(Op("Walk", FnReturn(fnOk)), reqs)
     ELSE /\ wk' = [wk EXCEPT !.pc = "list", !.arg = arg,
                              !.statFailed = probe /\ ~statOk,
                              !.root = IF probe THEN root \o Slash ELSE root]
          /\ TreeStep(Op("Walk.stat", "nil"), reqs)

\* Walk asking for the same page again.
WalkAfterPageSameToken(w) ==
  IF w.page # <<>> THEN w
  ELSE IF ~w.truncated THEN [w EXCEPT !.pc = "done", !.result = "nil"]
  ELSE [w EXCEPT !.pc = "list"]

\* The end of the loop over a page: return, or go on to the next page.
WalkAfterPage(w) ==
  IF w.page # <<>> THEN w
  ELSE IF ~w.truncated THEN [w EXCEPT !.pc = "done", !.result = "nil"]
  ELSE [w EXCEPT !.pc = "list", !.token = w.next]

\* Walk returning a failed listing's error without calling fn.
AfterListErrorNoCall(w, fnOk) == [w EXCEPT !.pc = "done", !.result = "S3Error"]

\* Walk after a failed ListObjectsV2: return fn(root, nil, err).
AfterListError(w, fnOk) ==
  [w EXCEPT !.pc = "done", !.errCalls = w.errCalls + 1,
            !.errArgs = Append(w.errArgs, [path |-> w.root, info |-> "nil", err |-> "S3Error"]),
            !.fnRet = FnReturn(fnOk),
            !.result = FnReturn(fnOk)]

\* Walk going on after fn whatever it returned.
AfterVisitIgnoreErr(w, fnOk) == WalkAfterPage(w)

\* Walk after fn(key, info, nil): return its error, or go on.
AfterVisit(w, fnOk) ==
  IF fnOk THEN WalkAfterPage(w) ELSE [w EXCEPT !.pc = "done", !.result = "fnErr"]

\* One ListObjectsV2 call of Walk's loop.  A failed call is handed to fn.
WalkList(ok, n, repeat, fnOk) ==
  LET out == ListPage(store, wk.root, wk.token, n, repeat)
      reqs == <<Req("ListObjectsV2", wk.root)>>
      w == [wk EXCEPT !.lists = wk.lists + 1]
  IN
  /\ wk.pc = "list"
  /\ UNCHANGED <<store, rm>>
  /\ IF ~ok
     THEN /\ wk' = AfterListError([w EXCEPT !.failed = TRUE], fnOk)
          /\ TreeStep(Op("Walk", FnReturn(fnOk)), reqs)
     ELSE /\ wk' = WalkAfterPage([w EXCEPT !.pc = "page", !.page = out.Contents,
                                           !.truncated = out.IsTruncated,
                                           !.next = out.NextContinuationToken])
          /\ TreeStep(Op("Walk.list", "nil"), reqs)

\* One turn of the loop over the page's objects.
WalkVisit(fnOk) ==
  LET key == Head(wk.page)
      rest == [wk EXCEPT !.page = Tail(wk.page)]
  IN
  /\ wk.pc = "page"
  /\ wk.page # <<>>
  /\ UNCHANGED <<store, rm>>
  /\ IF AlreadyVisited(wk.visited, key)
     THEN /\ wk' = WalkAfterPage([rest EXCEPT !.skipped = wk.skipped + 1])
          /\ TreeStep(Op("Walk.skip", "nil"), <<>>)
     ELSE LET seen == [rest EXCEPT !.visited = wk.visited \cup {key},
                                   !.visits = Append(wk.visits, key),
                                   !.fnRet = FnReturn(fnOk)]
          IN  /\ wk' = AfterVisit(seen, fnOk)
              /\ TreeStep(Op(IF fnOk THEN "Walk.visit" ELSE "Walk", FnReturn(fnOk)), <<>>)

TreeKeys == {kD, kDx, kDy, kDsubz, kDe, kSDx}
EmptyObjects(K) == [k \in K |-> <<>>]

TreeInit ==
  /\ store \in {EmptyObjects(K) : K \in SUBSET TreeKeys}
  /\ InitRest

WalkArgs == {kD, kDslash, Slash \o kD, <<>>}

WalkNext ==
  \/ \E arg \in WalkArgs, statOk \in BOOLEAN, fnOk \in BOOLEAN : WalkStart(arg, statOk, fnOk)
  \/ \E ok \in BOOLEAN, n \in 1..MaxPage, repeat \in BOOLEAN, fnOk \in BOOLEAN :
       WalkList(ok, n, repeat, fnOk)
  \/ \E fnOk \in BOOLEAN : WalkVisit(fnOk)

WalkSpec == TreeInit /\ [][WalkNext]_vars

\* C9: a Walk that lists a directory calls fn once for every key under the
\* root prefix, never twice for one key, in listing order, however the bucket
\* pages the listing and also when a page repeats a key; for the keys d/x,
\* d/y, d/sub/z, Walk("d") makes exactly three calls.
C9_WalkVisitsEachKeyOnce ==
  (wk.pc # "idle" /\ (wk.root = <<>> \/ HasSuffix(wk.root, Slash)))
  => /\ IsPrefixOf(wk.visits, ListAll(store, wk.root))
     /\ (wk.pc = "done" /\ wk.result = "nil" /\ ~wk.failed)
          => wk.visits = ListAll(store, wk.root)
     /\ (wk.pc = "done" /\ wk.result = "nil" /\ ~wk.failed
          /\ DOMAIN store = {kDx, kDy, kDsubz} /\ wk.arg = kD)
          => wk.visits = <<kDsubz, kDx, kDy>>

C9_Witness ==
  /\ wk.pc = "done" /\ wk.result = "nil" /\ ~wk.failed
  /\ wk.arg = kD /\ DOMAIN store = {kDx, kDy, kDsubz}
  /\ Len(wk.visits) = 3 /\ wk.lists >= 2 /\ wk.skipped >= 1

\* C14: Walk(root) for a root written without a trailing separator, returning
\* nil with every store call succeeding, has called fn for every object under
\* root + "/" whenever there is one, also when the object root exists.
C14_WalkTreatsRootAsDirectory ==
  (/\ wk.pc = "done" /\ wk.result = "nil" /\ ~wk.failed /\ ~wk.statFailed
   /\ TrimPrefix(wk.arg, Slash) # <<>> /\ ~HasSuffix(wk.arg, Slash))
  => \A k \in DOMAIN store :
       HasPrefix(k, TrimPrefix(wk.arg, Slash) \o Slash)
         => \E i \in 1..Len(wk.visits) : wk.visits[i] = k

\* The same when no object has the exact key root.
C14_NoObjectAtRoot ==
  (/\ wk.pc = "done" /\ wk.result = "nil" /\ ~wk.failed /\ ~wk.statFailed
   /\ TrimPrefix(wk.arg, Slash) # <<>> /\ ~HasSuffix(wk.arg, Slash)
   /\ TrimPrefix(wk.arg, Slash) \notin DOMAIN store)
  => \A k \in DOMAIN store :
       HasPrefix(k, TrimPrefix(wk.arg, Slash) \o Slash)
         => \E i \in 1..Len(wk.visits) : wk.visits[i] = k

\* The root of the Walk call names one object and nothing lies under root + "/".
RootIsSingleObject ==
  LET name == TrimPrefix(wk.arg, Slash)
  IN  /\ wk.pc # "idle"
      /\ name # <<>> /\ ~HasSuffix(name, Slash)
      /\ name \in DOMAIN store
      /\ \A k \in DOMAIN store : ~HasPrefix(k, name \o Slash)

C16_VisitFailureEndsWalk ==
  /\ [](wk.fnRet = "fnErr" => (wk.pc = "done" /\ wk.result = "fnErr"))
  /\ [][wk.fnRet = "fnErr" => wk' = wk]_vars

C16_Witness ==
  /\ wk.fnRet = "fnErr" /\ wk.pc = "done" /\ ~wk.failed
  /\ Len(wk.visits) >= 2
  /\ wk.page # <<>> /\ wk.truncated

\* C17: when a listing call fails, fn is called exactly once with the root, no
\* info and the error; the Walk returns what that call returned and issues
\* nothing more; the keys visited before stay as they were.
C17_ListFailureGoesToVisit ==
  /\ [](wk.failed =>
          /\ wk.pc = "done"
          /\ wk.errArgs = <<[path |-> wk.root, info |-> "nil", err |-> "S3Error"]>>
          /\ wk.fnRet # "none" /\ wk.result = wk.fnRet)
  /\ [][(~wk.failed /\ wk'.failed)
           => (wk'.visits = wk.visits /\ wk'.visited = wk.visited
               /\ wk'.lists = wk.lists + 1)]_vars
  /\ [][wk.failed => wk' = wk]_vars

C17_Witness ==
  /\ wk.failed /\ wk.pc = "done"
  /\ Len(wk.visits) >= 1 /\ wk.lists >= 2
  /\ wk.result = "nil"

\* ------------------------------------------------------------------ RemoveAll
\* The key FileSystem.Remove deletes for a name.
RemoveKey(name) == TrimPrefix(name, Slash)

\* RemoveAll, up to the choice between removePrefix and Remove.  listOk: the
\* ListObjectsV2 call of isDirectory succeeds.
RemoveAllStart(arg, listOk) ==
  LET name == TrimPrefix(arg, Slash)
      probe == ~HasSuffix(name, Slash)
      dirName == name \o Slash
      isDir == listOk /\ ListPage(store, dirName, <<>>, 1, FALSE).Contents # <<>>
      target == IF probe /\ isDir THEN dirName ELSE name
      reqs == IF probe THEN <<Req("ListObjectsV2", dirName)>> ELSE <<>>
  IN
  /\ rm.pc \in {"idle", "done"}
  /\ rm.calls < MaxCalls
  /\ UNCHANGED <<store, wk>>
  /\ rm' = [IdleRemove EXCEPT !.pc = IF HasSuffix(target, Slash) THEN "list" ELSE "single",
                              !.arg = arg, !.name = target, !.store0 = store,
                              !.failed = probe /\ ~listOk,
                              !.calls = rm.calls + 1, !.prevArg = rm.arg,
                              !.reqs = IF probe THEN 1 ELSE 0]
  /\ TreeStep(Op("RemoveAll.probe", "nil"), reqs)

\* RemoveAll's Remove(name) of a single object.
RemoveSingle(ok) ==
  /\ rm.pc = "single"
  /\ UNCHANGED wk
  /\ IF ok
     THEN /\ store' = DeleteObject(store, RemoveKey(rm.name))
          /\ rm' = [rm EXCEPT !.pc = "done", !.result = "nil", !.reqs = rm.reqs + 1,
                              !.dels = rm.dels \cup {RemoveKey(rm.name)}]
          /\ TreeStep(Op("RemoveAll", "nil"), <<Req("DeleteObject", RemoveKey(rm.name))>>)
     ELSE /\ UNCHANGED store
          /\ rm' = [rm EXCEPT !.pc = "done", !.result = "S3Error", !.failed = TRUE,
                              !.reqs = rm.reqs + 1]
          /\ TreeStep(Op("RemoveAll", "S3Error"), <<Req("DeleteObject", RemoveKey(rm.name))>>)

\* The end of removePrefix's loop over a page.
RemoveAfterPage(r) ==
  IF r.page # <<>> THEN r
  ELSE IF ~r.truncated THEN [r EXCEPT !.pc = "done", !.result = "nil"]
  ELSE [r EXCEPT !.pc = "list", !.token = r.next]

\* One ListObjectsV2 call of removePrefix's loop.
RemoveList(ok, n, repeat) ==
  LET out == ListPage(store, rm.name, rm.token, n, repeat)
      reqs == <<Req("ListObjectsV2", rm.name)>>
      r == [rm EXCEPT !.lists = rm.lists + 1, !.reqs = rm.reqs + 1]
  IN
  /\ rm.pc = "list"
  /\ UNCHANGED <<store, wk>>
  /\ IF ~ok
     THEN /\ rm' = [r EXCEPT !.pc = "done", !.result = "S3Error", !.failed = TRUE]
          /\ TreeStep(Op("RemoveAll", "S3Error"), reqs)
     ELSE /\ rm' = RemoveAfterPage([r EXCEPT !.pc = "page", !.page = out.Contents,
                                             !.truncated = out.IsTruncated,
                                             !.next = out.NextContinuationToken])
          /\ TreeStep(Op("RemoveAll.list", "nil"), reqs)

\* removePrefix going on to the next object after a failed Remove.
AfterRemoveErrorGoOn(r) == RemoveAfterPage([r EXCEPT !.page = Tail(r.page)])

\* removePrefix after fs.Remove returned an error: return err.
AfterRemoveError(r) == [r EXCEPT !.pc = "done", !.result = "S3Error"]

\* One turn of removePrefix's loop over the page's objects: fs.Remove(key).
RemoveObject(ok) ==
  LET key == Head(rm.page)
      reqs == <<Req("DeleteObject", RemoveKey(key))>>
      r == [rm EXCEPT !.reqs = rm.reqs + 1]
  IN
  /\ rm.pc = "page"
  /\ rm.page # <<>>
  /\ UNCHANGED wk
  /\ IF ok
     THEN /\ store' = DeleteObject(store, RemoveKey(key))
          /\ rm' = RemoveAfterPage([r EXCEPT !.page = Tail(rm.page),
                                             !.dels = rm.dels \cup {RemoveKey(key)}])
          /\ TreeStep(Op("RemoveAll.delete", "nil"), reqs)
     ELSE /\ UNCHANGED store
          /\ rm' = AfterRemoveError([r EXCEPT !.failed = TRUE, !.failAt = r.reqs])
          /\ TreeStep(Op("RemoveAll", "S3Error"), reqs)

RemoveArgs == {kD, kDslash, Slash \o kD, Slash \o Slash \o kDslash}

RemoveNext ==
  \/ \E arg \in RemoveArgs, listOk \in BOOLEAN : RemoveAllStart(arg, listOk)
  \/ \E ok \in BOOLEAN : RemoveSingle(ok)
  \/ \E ok \in BOOLEAN, n \in 1..MaxPage, repeat \in BOOLEAN : RemoveList(ok, n, repeat)
  \/ \E ok \in BOOLEAN : RemoveObject(ok)

RemoveSpec == TreeInit /\ [][RemoveNext]_vars

\* C10: RemoveAll on a directory prefix, with every list and delete call
\* succeeding and no other writer, leaves no key under the prefix and deletes
\* no object outside it.
C10_RemovesExactlyThePrefix ==
  (rm.pc = "done" /\ rm.result = "nil" /\ ~rm.failed /\ HasSuffix(rm.name, Slash))
  => /\ \A k \in DOMAIN store : ~HasPrefix(k, rm.name)
     /\ \A k \in DOMAIN rm.store0 : ~HasPrefix(k, rm.name) => k \in DOMAIN store

\* The same for a prefix that does not itself start with a slash.
C10_RelativePrefix ==
  (rm.pc = "done" /\ rm.result = "nil" /\ ~rm.failed /\ HasSuffix(rm.name, Slash)
   /\ ~HasPrefix(rm.name, Slash))
  => /\ \A k \in DOMAIN store : ~HasPrefix(k, rm.name)
     /\ \A k \in DOMAIN rm.store0 : ~HasPrefix(k, rm.name) => k \in DOMAIN store

\* The prefix a name stands for as a directory.
DirPrefix(arg) ==
  LET name == TrimPrefix(arg, Slash)
  IN  IF HasSuffix(name, Slash) THEN name ELSE name \o Slash

\* C11: after RemoveAll(name) returned nil for a name written without a
\* trailing separator, every store call having succeeded, the bucket holds
\* neither the object name nor any object under name + "/".
C11_RemovesPathAndChildren ==
  (rm.pc = "done" /\ rm.result = "nil" /\ ~rm.failed /\ ~HasSuffix(rm.arg, Slash))
  => /\ TrimPrefix(rm.arg, Slash) \notin DOMAIN store
     /\ \A k \in DOMAIN store : ~HasPrefix(k, DirPrefix(rm.arg))

\* What RemoveAll(name) does remove for such a name: the children when there
\* are any, and otherwise the object name.
C11_ChildrenOrObject ==
  (rm.pc = "done" /\ rm.result = "nil" /\ ~rm.failed /\ ~HasSuffix(rm.arg, Slash))
  => /\ \A k \in DOMAIN store : ~HasPrefix(k, DirPrefix(rm.arg))
     /\ (\A k \in DOMAIN rm.store0 : ~HasPrefix(k, DirPrefix(rm.arg)))
          => TrimPrefix(rm.arg, Slash) \notin DOMAIN store

\* C12: when a delete of removePrefix fails, RemoveAll returns that error and
\* issues no further request; the objects deleted before stay deleted and
\* every other object stays stored.
C12_StopsAtFailedDelete ==
  /\ rm.pc # "idle" => DOMAIN store = DOMAIN rm.store0 \ rm.dels
  /\ rm.failAt > 0
       => /\ rm.pc = "done"
          /\ rm.result = "S3Error"
          /\ rm.reqs = rm.failAt

C12_Witness ==
  /\ rm.failAt > 0
  /\ rm.pc = "done"
  /\ rm.dels # {}
  /\ \E k \in DOMAIN store : HasPrefix(k, rm.name)
  /\ rm.lists >= 2

\* C13: a second RemoveAll on the same path, whose own store calls succeed,
\* returns nil and leaves no object under the path, whether the first call
\* succeeded or stopped part-way.
C13_SecondCallSucceeds ==
  (rm.calls >= 2 /\ rm.prevArg = rm.arg /\ rm.pc = "done" /\ ~rm.failed)
  => /\ rm.result = "nil"
     /\ \A k \in DOMAIN store : ~HasPrefix(k, DirPrefix(rm.arg))

\* The same for a path that has no second leading slash.
C13_RelativePath ==
  (rm.calls >= 2 /\ rm.prevArg = rm.arg /\ rm.pc = "done" /\ ~rm.failed
   /\ ~HasPrefix(DirPrefix(rm.arg), Slash))
  => /\ rm.result = "nil"
     /\ \A k \in DOMAIN store : ~HasPrefix(k, DirPrefix(rm.arg))

\* C18 (RemoveAll): a RemoveAll one of whose store calls failed returns an
\* error.
C18_NoSwallowedError ==
  (rm.pc = "done" /\ rm.failed) => rm.result # "nil"

\* ------------------------------------------------------- Exists and MkdirAll
TrimSuffix(s, x) == IF HasSuffix(s, x) THEN SubSeq(s, 1, Len(s) - Len(x)) ELSE s

\* strings.Split(s, "/")
RECURSIVE Split(_)
Split(s) ==
  IF \A i \in 1..Len(s) : <<s[i]>> # Slash THEN <<s>>
  ELSE LET i == CHOOSE j \in 1..Len(s) :
                  <<s[j]>> = Slash /\ \A l \in 1..(j - 1) : <<s[l]>> # Slash
       IN  <<SubSeq(s, 1, i - 1)>> \o Split(SubSeq(s, i + 1, Len(s)))

\* strings.Join(parts, "/")
RECURSIVE Join(_)
Join(parts) ==
  IF parts = <<>> THEN <<>>
  ELSE IF Len(parts) = 1 THEN parts[1]
  ELSE parts[1] \o Slash \o Join(Tail(parts))

\* The error FileSystem.Stat(name) returns; ok: the HeadObject call is not
\* failed in transit.
StatErr(s, name, ok) == IF ok /\ HeadObject(s, StatKey(name)) THEN "nil" ELSE "S3Error"

\* An Exists that hands the error of Stat on.
ExistsErrPropagate(err) == err

\* The two values FileSystem.Exists returns for the error of Stat.
ExistsErr(err) == "nil"
ExistsRet(err) == err = "nil"

DirOnly(m, op, reqs) ==
  /\ mk' = m
  /\ lastOp' = op
  /\ lastReqs' = reqs
  /\ UNCHANGED <<fileVars, sessVars, wk, rm, ra, uf>>

\* FileSystem.Exists
Exists(name, headOk) ==
  LET err == StatErr(store, name, headOk)
  IN
  /\ mk.pc \in {"idle", "done"}
  /\ UNCHANGED store
  /\ DirOnly([mk EXCEPT !.exKey = StatKey(name), !.exRet = ExistsRet(err),
                        !.exHeadOk = headOk /\ HeadObject(store, StatKey(name))],
             Op("Exists", ExistsErr(err)), <<Req("HeadObject", StatKey(name))>>)

\* The key FileSystem.Mkdir puts the marker at.
MkdirKey(name) ==
  LET n == TrimPrefix(name, Slash)
  IN  IF HasSuffix(n, Slash) THEN n ELSE n \o Slash

\* The directory levels MkdirAll goes through, shallowest first.
MkdirAllDirs(arg) ==
  LET name == TrimPrefix(arg, Slash)
      full == IF HasSuffix(name, Slash) THEN name ELSE name \o Slash
      parts == Split(TrimSuffix(full, Slash))
  IN  IF name = <<>> \/ name = <<".">> THEN <<>>
      ELSE [i \in 1..Len(parts) |-> Join(SubSeq(parts, 1, i)) \o Slash]

\* MkdirAll, up to its loop.
MkdirAllStart(arg) ==
  LET dirs == MkdirAllDirs(arg)
      m == [IdleMkdir EXCEPT !.arg = arg, !.dirs = dirs, !.i = 1, !.store0 = store,
                             !.exKey = mk.exKey, !.exRet = mk.exRet,
                             !.exHeadOk = mk.exHeadOk]
  IN
  /\ mk.pc \in {"idle", "done"}
  /\ UNCHANGED store
  /\ IF dirs = <<>>
     THEN DirOnly([m EXCEPT !.pc = "done", !.result = "nil"], Op("MkdirAll", "nil"), <<>>)
     ELSE DirOnly([m EXCEPT !.pc = "loop"], Op("MkdirAll.split", "nil"), <<>>)

\* The end of one turn of MkdirAll's loop.
MkdirAfterLevel(m) ==
  IF m.i < Len(m.dirs) THEN [m EXCEPT !.i = m.i + 1]
  ELSE [m EXCEPT !.pc = "done", !.result = "nil"]

\* One turn of MkdirAll's loop: Exists(dir), then Mkdir(dir) unless it exists.
MkdirAllLevel(headOk, putOk) ==
  LET dir == mk.dirs[mk.i]
      err == StatErr(store, dir, headOk)
      head == Req("HeadObject", StatKey(dir))
      put == Req("PutObject", MkdirKey(dir))
      m == [mk EXCEPT !.probes = Append(mk.probes, StatKey(dir))]
  IN
  /\ mk.pc = "loop"
  /\ IF ExistsErr(err) # "nil"
     THEN /\ UNCHANGED store
          /\ DirOnly([m EXCEPT !.pc = "done", !.result = ExistsErr(err)],
                     Op("MkdirAll", ExistsErr(err)), <<head>>)
     ELSE IF ExistsRet(err)
     THEN /\ UNCHANGED store
          /\ DirOnly(MkdirAfterLevel(m),
                     Op(IF MkdirAfterLevel(m).pc = "done" THEN "MkdirAll" ELSE "MkdirAll.level",
                        "nil"), <<head>>)
     ELSE IF putOk
     THEN /\ store' = PutObject(store, MkdirKey(dir), <<>>)
          /\ DirOnly(MkdirAfterLevel([m EXCEPT !.puts = Append(mk.puts, MkdirKey(dir))]),
                     Op(IF MkdirAfterLevel(m).pc = "done" THEN "MkdirAll" ELSE "MkdirAll.level",
                        "nil"), <<head, put>>)
     ELSE /\ UNCHANGED store
          /\ DirOnly([m EXCEPT !.pc = "done", !.result = "S3Error"],
                     Op("MkdirAll", "S3Error"), <<head, put>>)

kA == <<"a">>
kAs == <<"a", "/">>
kABs == <<"a", "/", "b", "/">>
kABCs == <<"a", "/", "b", "/", "c", "/">>
kABC == <<"a", "/", "b", "/", "c">>

MkdirArgs ==
  {kABC, kABCs, Slash \o kABC, Slash \o kABCs, kA, Slash \o kAs, kABs, Slash, <<>>, <<".">>}
ExistsArgs == {kAs, kABs, kABCs, Slash \o kAs, kA, kABC}

\* The bucket at the start: any of the three markers, "a/b/" as an object with
\* content, and possibly the objects "a" and "a/b/c".
DirInit ==
  /\ store \in {[k \in K |-> IF k = kABs THEN <<1>> ELSE <<>>] :
                  K \in SUBSET {kAs, kABs, kABCs, kA, kABC}}
  /\ InitRest

DirNext ==
  \/ \E name \in ExistsArgs, headOk \in BOOLEAN : Exists(name, headOk)
  \/ \E arg \in MkdirArgs : MkdirAllStart(arg)
  \/ \E headOk \in BOOLEAN, putOk \in BOOLEAN : MkdirAllLevel(headOk, putOk)

DirSpec == DirInit /\ [][DirNext]_vars

\* C19: Exists returns true exactly when its HeadObject succeeds and false for
\* every failure, never returns an error, sends that one request and leaves
\* the bucket as it was.
C19_ExistsCollapsesFailure ==
  [][lastOp'.name = "Exists"
       => /\ store' = store
          /\ lastOp'.err = "nil"
          /\ mk'.exRet = mk'.exHeadOk
          /\ lastReqs' = <<Req("HeadObject", mk'.exKey)>>]_vars

C19_Witness ==
  /\ lastOp.name = "Exists"
  /\ ~mk.exRet
  /\ mk.exKey \in DOMAIN store

\* C20: after MkdirAll(path) returned nil, Exists is true for the marker key
\* of every level of path; the levels were probed from the shallowest to the
\* deepest; and a marker was put only at a level whose key held no object.
C20_MarkersForEveryLevel ==
  (mk.pc = "done" /\ mk.result = "nil")
  => /\ \A i \in 1..Len(mk.dirs) : ExistsRet(StatErr(store, mk.dirs[i], TRUE))
     /\ mk.probes = mk.dirs
     /\ \A i \in 1..Len(mk.puts) : mk.puts[i] \notin DOMAIN mk.store0

\* The first two parts alone, for the paths of the claim.
C20_MarkersExist ==
  (mk.pc = "done" /\ mk.result = "nil")
  => /\ \A i \in 1..Len(mk.dirs) : ExistsRet(StatErr(store, mk.dirs[i], TRUE))
     /\ mk.probes = mk.dirs
     /\ mk.arg \in {kABC, kABCs, Slash \o kABC, Slash \o kABCs}
          => mk.dirs = <<kAs, kABs, kABCs>>

\* ------------------------------------------------------------------- Rename
NonEmpty(x) == x # <<>>

\* path.Clean for names that hold no "." and no ".." element: repeated
\* slashes become one and a trailing slash goes.
Clean(s) ==
  LET body == Join(SelectSeq(Split(s), NonEmpty)) IN
  IF HasPrefix(s, Slash) THEN Slash \o body
  ELSE IF body = <<>> THEN <<".">> ELSE body

\* path.Join: the non-empty elements joined with slashes, then cleaned.
PathJoin(elems) ==
  LET ne == SelectSeq(elems, NonEmpty) IN
  IF ne = <<>> THEN <<>> ELSE Clean(Join(ne))

\* The CopySource Rename sends.
CopySource(bucket, oldpath) == PathJoin(<<bucket, oldpath>>)

Bucket == <<"b">>

\* The key a copy source "bucket/key" names; none when it has no slash.
SourceKeys(cs) ==
  IF \A i \in 1..Len(cs) : <<cs[i]>> # Slash THEN {}
  ELSE LET i == CHOOSE j \in 1..Len(cs) :
                  <<cs[j]>> = Slash /\ \A l \in 1..(j - 1) : <<cs[l]>> # Slash
       IN  {SubSeq(cs, i + 1, Len(cs))}

\* copy(source, key): the object the source names is put at key; the request
\* fails when the source names no object.  selfOk: whether the bucket takes
\* a copy of an object onto itself.
CopyAccepted(s, cs, key, selfOk) ==
  \E src \in SourceKeys(cs) : src \in DOMAIN s /\ (src = key => selfOk)
CopyObject(s, cs, key) ==
  LET src == CHOOSE k \in SourceKeys(cs) : TRUE IN PutObject(s, key, s[src])

RenameOnly(op, reqs) ==
  /\ lastOp' = op
  /\ lastReqs' = reqs
  /\ UNCHANGED <<fileVars, sessVars, treeVars>>

\* FileSystem.Rename; copyOk, delOk: the request is not failed in transit.
Rename(oldpath, newpath, copyOk, selfOk, delOk) ==
  LET old == TrimPrefix(oldpath, Slash)
      new == TrimPrefix(newpath, Slash)
      cs == CopySource(Bucket, old)
      copied == copyOk /\ CopyAccepted(store, cs, new, selfOk)
      op(err) == [Op("Rename", err) EXCEPT !.args = [old |-> old, new |-> new]]
      copyReq == Req("CopyObject", new)
  IN
  IF ~copied
  THEN /\ UNCHANGED store
       /\ RenameOnly(op("S3Error"), <<copyReq>>)
  ELSE IF ~delOk
  THEN /\ store' = CopyObject(store, cs, new)
       /\ RenameOnly(op("S3Error"), <<copyReq, Req("DeleteObject", old)>>)
  ELSE /\ store' = DeleteObject(CopyObject(store, cs, new), old)
       /\ RenameOnly(op("nil"), <<copyReq, Req("DeleteObject", old)>>)

RenameArgs == {kF, Slash \o kF, kD, kDslash, kDe}
RenameTargets == {kF, kD, kDe}

\* The bucket at the start: any of the objects "f", "d", "de" and the marker
\* "d/", each with a content of its own.
RenameContent(k) ==
  CASE k = kF -> <<1, 0>> [] k = kD -> <<1>> [] k = kDe -> <<0>> [] OTHER -> <<>>

RenameInit ==
  /\ store \in {[k \in K |-> RenameContent(k)] : K \in SUBSET {kF, kD, kDslash, kDe}}
  /\ InitRest

RenameNext ==
  \E oldpath \in RenameArgs, newpath \in RenameTargets,
     copyOk \in BOOLEAN, selfOk \in BOOLEAN, delOk \in BOOLEAN :
    Rename(oldpath, newpath, copyOk, selfOk, delOk)

RenameSpec == RenameInit /\ [][RenameNext]_vars

\* C34: Rename sends the delete only after a copy that succeeded; a failed
\* copy leaves the bucket; a failed delete leaves the content of old at old
\* and at new; after a Rename that returned nil the content old held is at
\* new, whatever the two keys are.
C34_RenameKeepsContent ==
  [][lastOp'.name = "Rename" =>
       LET old == lastOp'.args.old
           new == lastOp'.args.new
       IN
       /\ Len(lastReqs') \in 1..2 /\ lastReqs'[1].op = "CopyObject"
       /\ Len(lastReqs') = 1 => (lastOp'.err # "nil" /\ store' = store)
       /\ Len(lastReqs') = 2 =>
            /\ lastReqs'[2] = Req("DeleteObject", old)
            /\ old \in DOMAIN store
            /\ ObjectAt(store', new) = ObjectAt(store, old)
            /\ lastOp'.err # "nil" => ObjectAt(store', old) = ObjectAt(store, old)]_vars

\* What does hold: for an old key that path.Clean leaves as it is and a new
\* key other than it, Rename behaves as C34 says.
RenameMovesCleanKey ==
  [][(lastOp'.name = "Rename" /\ lastOp'.args.old # lastOp'.args.new
        /\ Clean(lastOp'.args.old) = lastOp'.args.old) =>
       LET old == lastOp'.args.old
           new == lastOp'.args.new
       IN
       /\ Len(lastReqs') \in 1..2 /\ lastReqs'[1].op = "CopyObject"
       /\ Len(lastReqs') = 1 => (lastOp'.err # "nil" /\ store' = store)
       /\ Len(lastReqs') = 2 =>
            /\ lastReqs'[2] = Req("DeleteObject", old)
            /\ old \in DOMAIN store
            /\ ObjectAt(store', new) = ObjectAt(store, old)
            /\ lastOp'.err # "nil" => ObjectAt(store', old) = ObjectAt(store, old)
            /\ lastOp'.err = "nil" => old \notin DOMAIN store']_vars

\* ------------------------------------------------- the loops over the pages
\* One Walk or RemoveAll calls at a time: the caller's thread runs the loop,
\* and every request it sends returns, with an answer or with an error.
PageNext ==
  \/ rm.pc = "idle" /\ WalkNext
  \/ wk.pc = "idle" /\ RemoveNext

WalkLoop ==
  \/ \E ok \in BOOLEAN, n \in 1..MaxPage, repeat \in BOOLEAN, fnOk \in BOOLEAN :
       WalkList(ok, n, repeat, fnOk)
  \/ \E fnOk \in BOOLEAN : WalkVisit(fnOk)

RemoveLoop ==
  \/ \E ok \in BOOLEAN : RemoveSingle(ok)
  \/ \E ok \in BOOLEAN, n \in 1..MaxPage, repeat \in BOOLEAN : RemoveList(ok, n, repeat)
  \/ \E ok \in BOOLEAN : RemoveObject(ok)

PageSpec ==
  TreeInit /\ [][PageNext]_vars /\ WF_vars(WalkLoop) /\ WF_vars(RemoveLoop)

KeysUnder(s, prefix) == {k \in DOMAIN s : HasPrefix(k, prefix)}

\* C36: the loops of Walk and of removePrefix send at most one ListObjectsV2
\* more than there are keys under the prefix, for pages of one key and more
\* and with the objects of a page deleted before the next is listed, and
\* each call that entered its loop returns.
C36_PaginationTerminates ==
  /\ [](wk.lists <= Cardinality(KeysUnder(store, wk.root)) + 1)
  /\ [](rm.pc # "idle" => rm.lists <= Cardinality(KeysUnder(rm.store0, rm.name)) + 1)
  /\ (wk.pc \in {"list", "page"}) ~> (wk.pc = "done")
  /\ (rm.pc \in {"list", "page"}) ~> (rm.pc = "done")

C36_Witness ==
  /\ rm.pc = "done" /\ rm.result = "nil"
  /\ rm.lists >= 3 /\ Cardinality(rm.dels) >= 3

\* A Walk that needed several pages has returned.
C36_WitnessWalk ==
  /\ wk.pc = "done" /\ wk.result = "nil" /\ wk.lists >= 3 /\ Len(wk.visits) >= 3

====
